---- MODULE Spec2Model ----
(***************************************************************************)
(* MarkovTool: the Collector (MarkovTool/stat.py), the process instances   *)
(* (MarkovTool/instance.py) and the descriptions they run                  *)
(* (MarkovTool/description.py), as a state machine.                        *)
(*                                                                         *)
(* Python objects are values in heaps: a chunk is an index into the        *)
(* collector's `chunks` sequence, so that `is` and in-place mutation       *)
(* (last.length += 1, last.data.append) act on shared objects as they do   *)
(* in the source. A dict keeps its insertion order (`order`).              *)
(***************************************************************************)
EXTENDS Integers, Sequences, FiniteSets, TLC

\* ------------------------------------------------------------------ bounds
\* steps a caller may pass to put / retrieve: 0 .. MaxStep
MaxStep == 1
\* calls one run makes that the log takes (a put into an open collector, a
\* redirect that returns True)
MaxCalls == 3
\* puts one run of SpecOrdered makes
MaxOrdered == 5
\* calls one run of SpecInst makes
MaxOps == 5
\* Collector objects one run makes
MaxLogs == 3
\* steps an instance is taken to by take and skip
MaxTake == 3

\* --------------------------------------------------------------- constants
\* Python's None, where an int is expected (a state, a step, a backend, an id)
None == -1
\* the key '__EMPTY__' of the bucket of entries put with backend None
EMPTY == -2
\* the states of the two-state processes of the runs
States == {0, 1}
Steps == 0 .. MaxStep
\* the ids of the instance objects of a run; the last one is created last
InstIds == {0, 1, 2}
LastInst == CHOOSE i \in InstIds : \A j \in InstIds : j <= i
\* hashable backends used as group tags
Backends == {0, 1}
GroupKeys == Backends \cup {EMPTY}
\* the Stochastic objects of a run: those of Backends, and those variant() makes
DescIds == {0, 1, 2, 3}

\* ------------------------------------------------------------------ chunks
NoChunk == 0

ChunkRaw(start, data) ==
    [type_ |-> "RAW", start |-> start, data |-> data, point_to |-> NoChunk, length |-> 0]

ChunkRef(start, point_to, length) ==
    [type_ |-> "REF", start |-> start, data |-> <<>>, point_to |-> point_to, length |-> length]

\* ---------------------------------------------------------------- Collector
\* Collector.__init__ : _entries = {'__EMPTY__': {}}, _is_open = True, _id
NewCollector(id) ==
    [ _id     |-> id,
      is_open |-> TRUE,
      order   |-> [g \in GroupKeys |-> <<>>],
      tapes   |-> [g \in GroupKeys |-> [i \in InstIds |-> <<>>]],
      chunks  |-> <<>> ]

\* `instance in group`
InGroup(col, g, i) == \E k \in 1 .. Len(col.order[g]) : col.order[g][k] = i

\* positions <<k, j>>: j-th chunk of the tape of the k-th instance of the group
Positions(col, g) ==
    UNION { { <<k, j>> : j \in 1 .. Len(col.tapes[g][col.order[g][k]]) }
            : k \in 1 .. Len(col.order[g]) }

ChunkAt(col, g, p) == col.tapes[g][col.order[g][p[1]]][p[2]]

\* the test of Collector._match: line 146
MatchHit(chunk, step) ==
    chunk.type_ = "RAW" /\ chunk.start + Len(chunk.data) > step

\* the scan of Collector._match (lines 144-149): the first chunk that passes
\* the test, in the order of the group's instances and of each tape
FirstHit(col, g, step) ==
    LET hits == { p \in Positions(col, g) : MatchHit(col.chunks[ChunkAt(col, g, p)], step) }
        first == CHOOSE p \in hits : \A q \in hits :
                    \/ p[1] < q[1]
                    \/ (p[1] = q[1] /\ p[2] <= q[2])
    IN  IF hits = {} THEN [chunk |-> NoChunk, instance |-> None]
        ELSE [chunk |-> ChunkAt(col, g, first), instance |-> col.order[g][first[1]]]

\* _match with the search widened: when the group holds no hit, a raw chunk
\* of another group is returned
MatchAnyGroup(col, g, step, state) ==
    LET own == FirstHit(col, g, step)
        others == { h \in GroupKeys \ {g} : FirstHit(col, h, step).chunk # NoChunk }
    IN  IF own.chunk # NoChunk \/ others = {} THEN own
        ELSE FirstHit(col, CHOOSE h \in others : TRUE, step)

\* Collector._match(group, step, state): the first raw chunk, in the order of
\* the group's instances and of each tape, that ends after step; state is
\* not looked at.
_match(col, g, step, state) == FirstHit(col, g, step)

\* group.setdefault(instance, [])
SetDefault(col, g, i) ==
    IF InGroup(col, g, i) THEN col
    ELSE [col EXCEPT !.order[g] = Append(@, i)]

\* tape.append(chunk) of a new chunk object
AppendNew(col, g, i, chunk) ==
    [col EXCEPT !.chunks = Append(@, chunk),
                !.tapes[g][i] = Append(@, Len(col.chunks) + 1)]

\* the body of Collector.put on an open collector, after the group is found
PutOpen(col, instance, step, state, b) ==
    LET m == _match(col, b, step, state)
        col1 == SetDefault(col, b, instance)
        tape == col1.tapes[b][instance]
        last == tape[Len(tape)]
        lastc == col1.chunks[last]
    IN  IF m.instance = instance THEN [col |-> col, ret |-> FALSE]
        ELSE IF tape = <<>> THEN
            IF m.chunk # NoChunk
            THEN [col |-> AppendNew(col1, b, instance, ChunkRef(step, m.chunk, 1)), ret |-> TRUE]
            ELSE [col |-> AppendNew(col1, b, instance, ChunkRaw(step, <<state>>)), ret |-> TRUE]
        ELSE CASE lastc.type_ = "REF" /\ m.chunk # NoChunk ->
                    IF lastc.point_to = m.chunk
                    THEN [col |-> [col1 EXCEPT !.chunks[last].length = @ + 1], ret |-> TRUE]
                    ELSE [col |-> col1, ret |-> TRUE]
               [] lastc.type_ = "RAW" /\ m.chunk # NoChunk ->
                    [col |-> AppendNew(col1, b, instance, ChunkRef(step, m.chunk, 1)), ret |-> TRUE]
               [] lastc.type_ = "REF" /\ m.chunk = NoChunk ->
                    [col |-> AppendNew(col1, b, instance, ChunkRaw(step, <<state>>)), ret |-> TRUE]
               [] lastc.type_ = "RAW" /\ m.chunk = NoChunk ->
                    [col |-> [col1 EXCEPT !.chunks[last].data = Append(@, state)], ret |-> TRUE]

\* put without the bucket of its own for backend None: such entries are
\* filed with those of backend 0
NoSentinel(backend) == IF backend = None THEN 0 ELSE backend

\* backend None is filed under '__EMPTY__'
GroupOf(backend) == IF backend = None THEN EMPTY ELSE backend

\* put without the test of _is_open (lines 169-170)
PutAlways(col, instance, step, state, backend) ==
    PutOpen(col, instance, step, state, GroupOf(backend))

\* Collector.put(instance, step, state, backend) -> the collector after the
\* call and the value returned
put(col, instance, step, state, backend) ==
    IF ~col.is_open THEN [col |-> col, ret |-> FALSE]
    ELSE PutOpen(col, instance, step, state, GroupOf(backend))

\* ---------------------------------------------------------------- Instance
\* Instance.__init__ (kind "Instance") and Endless.__init__ (kind "Endless");
\* _collectors names the set object the instance holds (copy() shares it)
NewInstance(kind, id, backend) ==
    [ kind          |-> kind,
      _id           |-> id,
      _backend      |-> backend,
      _has_stopped  |-> FALSE,
      _state        |-> None,
      _forced_state |-> None,
      _step         |-> 0,
      _collectors   |-> id ]

\* does self.state (the property getter) raise ValueError
StateRaises(inst) == inst._state = None

\* Instance._entry(): the dict passed to put as keyword arguments
_entry(inst) ==
    [backend |-> inst._backend, instance |-> inst._id, step |-> inst._step, state |-> inst._state]

\* a value returned, or the exception raised instead
Return(v) == [value |-> v, raised |-> ""]
Raise(e) == [value |-> None, raised |-> e]

\* Python's seq[a:b]
PySlice(seq, a, b) ==
    LET n == Len(seq)
        Clamp(x) == IF x < 0 THEN (IF x + n < 0 THEN 0 ELSE x + n) ELSE (IF x > n THEN n ELSE x)
        lo == Clamp(a)
        hi == Clamp(b)
    IN  IF hi <= lo THEN <<>> ELSE SubSeq(seq, lo + 1, hi)

\* Python's seq[k]: the element, or IndexError
PyIndex(seq, k) ==
    LET n == Len(seq)
        j == IF k < 0 THEN k + n ELSE k
    IN  IF j < 0 \/ j >= n THEN Raise("IndexError") ELSE Return(seq[j + 1])

\* the states one chunk contributes to playback (lines 317-325)
ChunkStates(col, chunk) ==
    IF chunk.type_ = "RAW" THEN chunk.data
    ELSE LET raw == col.chunks[chunk.point_to]
             start == chunk.start - raw.start
         IN  PySlice(raw.data, start, start + chunk.length)

RECURSIVE PlayTape(_, _)
PlayTape(col, tape) ==
    IF tape = <<>> THEN <<>>
    ELSE ChunkStates(col, col.chunks[Head(tape)]) \o PlayTape(col, Tail(tape))

\* list(Collector.playback(instance)): the states the generator yields
playback(col, inst) ==
    IF StateRaises(inst) THEN Raise("ValueError")
    ELSE LET g == GroupOf(inst._backend)
         IN  IF col.order[g] = <<>> THEN Return(<<>>)
             ELSE Return(PlayTape(col, col.tapes[g][inst._id]))

\* the scan of Collector.retrieve (lines 284-293)
RECURSIVE RetrieveTape(_, _, _)
RetrieveTape(col, tape, step) ==
    IF tape = <<>> THEN Return(None)
    ELSE LET chunk == col.chunks[Head(tape)]
         IN  CASE chunk.type_ = "RAW" /\ chunk.start + Len(chunk.data) > step ->
                     PyIndex(chunk.data, step - chunk.start)
               [] chunk.type_ = "REF" /\ chunk.start + chunk.length > step ->
                     PyIndex(col.chunks[chunk.point_to].data, step - chunk.start)
               [] OTHER -> RetrieveTape(col, Tail(tape), step)

\* Collector.retrieve(instance, step)
retrieve(col, inst, step) ==
    IF StateRaises(inst) THEN Raise("ValueError")
    ELSE LET g == GroupOf(inst._backend)
         IN  IF col.order[g] = <<>> THEN Return(None)
             ELSE IF ~InGroup(col, g, inst._id) THEN Raise("TypeError")
             ELSE RetrieveTape(col, col.tapes[g][inst._id], step)

\* Collector.length(instance): both cases of the match test ChunkType.RAW,
\* so a tape that ends with a ChunkRef falls through and None is returned
length(col, inst) ==
    IF StateRaises(inst) THEN Raise("ValueError")
    ELSE LET g == GroupOf(inst._backend)
             tape == col.tapes[g][inst._id]
             last == col.chunks[tape[Len(tape)]]
         IN  IF col.order[g] = <<>> THEN Return(None)
             ELSE IF ~InGroup(col, g, inst._id) THEN Raise("TypeError")
             ELSE IF last.type_ = "RAW" THEN Return(last.start + Len(last.data))
             ELSE Return(None)

\* the windows of one width over a history (lines 358-361), as the set of
\* <<pattern, number of occurrences>>
CountWidth(history, width) ==
    LET starts == 1 .. (Len(history) - width + 1)
        pats == { SubSeq(history, k, k + width - 1) : k \in starts }
    IN  { <<p, Cardinality({ k \in starts : SubSeq(history, k, k + width - 1) = p })>> : p \in pats }

\* Collector.count(instance, (width,)) with step_range None
count(col, inst, width) ==
    LET history == playback(col, inst)
    IN  IF history.raised # "" THEN history
        ELSE IF Len(history.value) = 0 THEN Return(None)
        ELSE Return(CountWidth(history.value, width))

\* the loop of redirect with one case for both chunk types: every chunk of
\* src gets a new ChunkRef that points to it
RECURSIVE RedirectWrap(_, _, _, _)
RedirectWrap(col, g, dst, src_tape) ==
    IF src_tape = <<>> THEN col
    ELSE LET c == Head(src_tape)
             chunk == col.chunks[c]
             n == IF chunk.type_ = "REF" THEN chunk.length ELSE Len(chunk.data)
         IN  RedirectWrap(AppendNew(col, g, dst, ChunkRef(chunk.start, c, n)),
                          g, dst, Tail(src_tape))

\* the loop of Collector.redirect (lines 228-233): a ChunkRef of src is
\* appended as the same object, a ChunkRaw as a new ChunkRef to it
RECURSIVE RedirectLoop(_, _, _, _)
RedirectLoop(col, g, dst, src_tape) ==
    IF src_tape = <<>> THEN col
    ELSE LET c == Head(src_tape)
             chunk == col.chunks[c]
             col1 == IF chunk.type_ = "REF"
                     THEN [col EXCEPT !.tapes[g][dst] = Append(@, c)]
                     ELSE AppendNew(col, g, dst, ChunkRef(chunk.start, c, Len(chunk.data)))
         IN  RedirectLoop(col1, g, dst, Tail(src_tape))

\* Collector.redirect(src, dst) -> the collector after the call, the value
\* returned, the exception raised. dst_backend is read from src (line 221),
\* and the group is looked up under src's backend as it is, None included.
\* With dst == src the loop appends to the list it iterates and does not end.
redirect(col, src, dst) ==
    LET src_backend == _entry(src).backend
        dst_backend == _entry(src).backend
        g == src_backend
    IN  IF StateRaises(src) THEN [col |-> col, ret |-> FALSE, raised |-> "ValueError"]
        ELSE IF src_backend = None \/ col.order[g] = <<>> \/ ~InGroup(col, g, src._id)
                \/ src_backend # dst_backend
             THEN [col |-> col, ret |-> FALSE, raised |-> ""]
        ELSE IF src._id = dst._id
             THEN [col |-> col, ret |-> FALSE, raised |-> "no return"]
        ELSE [col |-> RedirectLoop(SetDefault(col, g, dst._id), g, dst._id, col.tapes[g][src._id]),
              ret |-> TRUE, raised |-> ""]

\* Collector.open(*instances), without the binding of the instances
open(col) == [col EXCEPT !.is_open = TRUE]

\* close() as a switch: a closed collector is opened by it
CloseToggles(col) == [col EXCEPT !.is_open = ~@]

\* Collector.close()
close(col) == [col EXCEPT !.is_open = FALSE]

\* ------------------------------------------------------------- Description
\* a uniform draw in [0, 1) is known by the half it falls in: 0 for
\* [0, 1/2), 1 for [1/2, 1); a cumulative sum is counted in halves
Picks == {0, 1}

\* Stochastic: shape, my_seed, the cumulative sums of the rows of the matrix,
\* initial_state (an int, or a vector kept as its cumulative sum)
Stochastic(id, shape, my_seed, matrix_cumsum, initial_state, initial_cumsum) ==
    [ _id |-> id, shape |-> shape, my_seed |-> my_seed,
      _matrix_cumsum |-> matrix_cumsum,
      _initial_state |-> initial_state,
      _initial_state_cumsum |-> initial_cumsum ]

\* no Stochastic object
NoDescription == Stochastic(None, <<0, 0>>, None, <<>>, None, <<>>)

\* Description.variant(my_seed = my_seed) on the object d: result =
\* copy(self) is a new object with the fields of self, its _id included;
\* the new id is assigned to self (line 99); setattr(result, 'my_seed', ...).
\* Returns the object made.
variant(w, d, my_seed) ==
    LET new == w.dcount
        result == [w.descriptions[d] EXCEPT !.my_seed = my_seed]
    IN  [w |-> [w EXCEPT !.descriptions[d]._id = w.dcount,
                         !.descriptions[new] = result,
                         !.dcount = @ + 1],
         ret |-> new]

\* the inverse CDF with the bound of an interval counted to the state below it
InverseCdfClosed(accumulated, pick) ==
    LET hits == { k \in 1 .. Len(accumulated) : pick <= accumulated[k] }
    IN  IF hits = {} THEN Raise("ValueError")
        ELSE Return((CHOOSE k \in hits : \A h \in hits : k <= h) - 1)

\* for i, value in enumerate(accumulated): if pick < value: return i
\* else: raise ValueError
InverseCdf(accumulated, pick) ==
    LET hits == { k \in 1 .. Len(accumulated) : pick < accumulated[k] }
    IN  IF hits = {} THEN Raise("ValueError")
        ELSE Return((CHOOSE k \in hits : \A h \in hits : k <= h) - 1)

\* Stochastic._initial(pick)
_initial(desc, pick) ==
    IF desc._initial_state_cumsum # <<>> THEN InverseCdf(desc._initial_state_cumsum, pick)
    ELSE IF desc._initial_state = None THEN Raise("ValueError")
    ELSE Return(desc._initial_state)

\* Stochastic._transition(state, pick)
_transition(desc, state, pick) ==
    LET row == PyIndex(desc._matrix_cumsum, state)
    IN  IF row.raised # "" THEN row ELSE InverseCdf(row.value, pick)

\* ----------------------------------------------------- Instance and Endless
\* The objects an operation reads and writes are passed as a record w:
\*   collectors, instances, csets (the set objects instances hold in
\*   _collectors, by the id of the instance that created them), icount
\*   (Instance._count) and descriptions.

\* default_rng(my_seed), made for instance id: the stream of that seed, or a
\* stream of its own when my_seed is None; no draw has been taken from it
default_rng(id, my_seed) ==
    [stream |-> IF my_seed = None THEN <<"fresh", id>> ELSE <<"seed", my_seed>>, pos |-> 0]

\* no Generator object
NoRng == [stream |-> <<"none", 0>>, pos |-> 0]

\* Endless.__init__: _state_rng names the Generator object the instance
\* holds (copy() shares it, deepcopy() makes a new one)
NewEndless(id, backend, my_seed) ==
    [ kind          |-> "Endless",
      _id           |-> id,
      _backend      |-> backend,
      _has_stopped  |-> FALSE,
      _state        |-> None,
      _forced_state |-> None,
      _step         |-> 0,
      _collectors   |-> id,
      _state_rng    |-> id ]

\* _emit with the entry built as if the step were already counted
EmitLate(w, i) ==
    LET inst == w.instances[i]
        bound == w.csets[inst._collectors]
        opened == { c \in bound : w.collectors[c].is_open }
        e == [_entry(inst) EXCEPT !.step = @ + 1]
        res == [c \in opened |-> put(w.collectors[c], e.instance, e.step, e.state, e.backend)]
    IN  IF opened # {} /\ StateRaises(inst)
        THEN [w |-> w, puts |-> {}, raised |-> "ValueError"]
        ELSE [w |-> [w EXCEPT
                        !.collectors = [c \in DOMAIN w.collectors |->
                                            IF c \in opened THEN res[c].col ELSE w.collectors[c]],
                        !.csets[inst._collectors] = opened],
              puts |-> { [collector |-> c, entry |-> e, ret |-> res[c].ret] : c \in opened },
              raised |-> ""]

\* _emit that passes a refusal of put on to the caller of next
EmitStrict(w, i) ==
    LET inst == w.instances[i]
        bound == w.csets[inst._collectors]
        opened == { c \in bound : w.collectors[c].is_open }
        e == _entry(inst)
        res == [c \in opened |-> put(w.collectors[c], e.instance, e.step, e.state, e.backend)]
    IN  IF opened # {} /\ StateRaises(inst)
        THEN [w |-> w, puts |-> {}, raised |-> "ValueError"]
        ELSE IF bound # opened \/ \E c \in opened : ~res[c].ret
        THEN [w |-> w, puts |-> {}, raised |-> "RuntimeError"]
        ELSE [w |-> [w EXCEPT
                        !.collectors = [c \in DOMAIN w.collectors |->
                                            IF c \in opened THEN res[c].col ELSE w.collectors[c]],
                        !.csets[inst._collectors] = opened],
              puts |-> { [collector |-> c, entry |-> e, ret |-> res[c].ret] : c \in opened },
              raised |-> ""]

\* Instance._emit(): put the entry into every bound collector that is open,
\* unbind the closed ones
_emit(w, i) ==
    LET inst == w.instances[i]
        bound == w.csets[inst._collectors]
        opened == { c \in bound : w.collectors[c].is_open }
        e == _entry(inst)
        res == [c \in opened |-> put(w.collectors[c], e.instance, e.step, e.state, e.backend)]
    IN  IF opened # {} /\ StateRaises(inst)
        THEN [w |-> w, puts |-> {}, raised |-> "ValueError"]
        ELSE [w |-> [w EXCEPT
                        !.collectors = [c \in DOMAIN w.collectors |->
                                            IF c \in opened THEN res[c].col ELSE w.collectors[c]],
                        !.csets[inst._collectors] = opened],
              puts |-> { [collector |-> c, entry |-> e, ret |-> res[c].ret] : c \in opened },
              raised |-> ""]

\* __next__ without line 181: the forced state is taken and left in place
NextKeepsForced(w, i) ==
    LET inst == w.instances[i]
        taken == IF inst._forced_state # None
                 THEN [inst EXCEPT !._state = inst._forced_state]
                 ELSE inst
        em == _emit([w EXCEPT !.instances[i] = taken], i)
    IN  IF em.raised # ""
        THEN [w |-> em.w, ret |-> None, puts |-> {}, raised |-> em.raised]
        ELSE [w |-> [em.w EXCEPT !.instances[i]._step = @ + 1],
              ret |-> taken._state, puts |-> em.puts, raised |-> ""]

\* Instance.__next__(): take the forced state if there is one, emit, count
\* the step, return the state
Instance__next__(w, i) ==
    LET inst == w.instances[i]
        taken == IF inst._forced_state # None
                 THEN [inst EXCEPT !._state = inst._forced_state, !._forced_state = None]
                 ELSE inst
        em == _emit([w EXCEPT !.instances[i] = taken], i)
    IN  IF em.raised # ""
        THEN [w |-> em.w, ret |-> None, puts |-> {}, raised |-> em.raised]
        ELSE [w |-> [em.w EXCEPT !.instances[i]._step = @ + 1],
              ret |-> taken._state, puts |-> em.puts, raised |-> ""]

\* Endless.__next__ that takes no draw when a state is forced
NextForcedSkipsDraw(w, i, pick) ==
    LET inst == w.instances[i]
        desc == w.descriptions[inst._backend]
        picked == IF inst._step = 0 THEN _initial(desc, pick)
                  ELSE _transition(desc, inst._state, pick)
        w1 == IF inst._step = 0 \/ inst._forced_state # None THEN w
              ELSE [w EXCEPT !.rngs[inst._state_rng].pos = @ + 1]
    IN  IF picked.raised # ""
        THEN [w |-> w1, ret |-> None, puts |-> {}, raised |-> picked.raised]
        ELSE Instance__next__([w1 EXCEPT !.instances[i]._state = picked.value], i)

\* Endless.__next__() with the draw it takes: from a new default_rng(None)
\* at step 0 (_pick_initial_state), from _state_rng afterwards
\* (_pick_next_state)
Endless__next__(w, i, pick) ==
    LET inst == w.instances[i]
        desc == w.descriptions[inst._backend]
        picked == IF inst._step = 0 THEN _initial(desc, pick)
                  ELSE _transition(desc, inst._state, pick)
        w1 == IF inst._step = 0 THEN w
              ELSE [w EXCEPT !.rngs[inst._state_rng].pos = @ + 1]
    IN  IF picked.raised # ""
        THEN [w |-> w1, ret |-> None, puts |-> {}, raised |-> picked.raised]
        ELSE Instance__next__([w1 EXCEPT !.instances[i]._state = picked.value], i)

\* ------------------------------------------------------ Finite and Dependent
\* stop predicates a caller may give to Finite: the default lambda, and two
\* functions of the step and of the state
Predicates == {"never", "after_one", "in_state_1"}

\* stop_predicate(self)
Stops(predicate, inst) ==
    CASE predicate = "never"      -> FALSE
      [] predicate = "at_once"    -> inst._step >= 0
      [] predicate = "after_one"  -> inst._step >= 1
      [] predicate = "after_two"  -> inst._step >= 2
      [] predicate = "in_state_1" -> inst._state = 1

\* Finite(description, stop_predicate)
NewFinite(id, backend, my_seed, predicate) ==
    [kind |-> "Finite", _stop_predicate |-> predicate] @@ NewEndless(id, backend, my_seed)

\* Dependent(description, input): the input setter keeps input as _parent
\* when the shapes fit, and _input stays None
NewDependent(id, backend, my_seed, input) ==
    [kind |-> "Dependent", _input |-> None, _parent |-> input] @@ NewEndless(id, backend, my_seed)

\* Dependent.__init__: the id is taken and the Generator made by
\* Endless.__init__ before the input setter compares the shapes
Dependent__init__(w, d, input) ==
    LET id == w.icount
        w1 == [w EXCEPT !.icount = @ + 1]
        desc == w.descriptions[d]
        parent == w.instances[input]
    IN  IF desc.shape[1] # w.descriptions[parent._backend].shape[2]
        THEN [w |-> w1, ret |-> None, raised |-> "ValueError"]
        ELSE [w |-> [w1 EXCEPT !.instances[id] = NewDependent(id, d, desc.my_seed, input),
                               !.rngs[id] = default_rng(id, desc.my_seed)],
              ret |-> id, raised |-> ""]

\* the StopIteration of Finite.__next__ and Dependent.__next__
Exhausted(w, i) ==
    [w |-> [w EXCEPT !.instances[i]._has_stopped = TRUE],
     ret |-> None, puts |-> {}, raised |-> "StopIteration"]

\* Finite.__next__ without the test of _step: the predicate is asked at the
\* first call too
FiniteAsksAtFirst(w, i, pick) ==
    LET inst == w.instances[i]
    IN  IF Stops(inst._stop_predicate, inst)
        THEN Exhausted(w, i)
        ELSE Endless__next__(w, i, pick)

\* Finite.__next__ that asks the predicate only while _has_stopped is unset
\* and clears the flag when it goes on
FiniteRestarts(w, i, pick) ==
    LET inst == w.instances[i]
    IN  IF inst._step > 0 /\ ~inst._has_stopped /\ Stops(inst._stop_predicate, inst)
        THEN Exhausted(w, i)
        ELSE Endless__next__([w EXCEPT !.instances[i]._has_stopped = FALSE], i, pick)

\* Finite.__next__()
Finite__next__(w, i, pick) ==
    LET inst == w.instances[i]
    IN  IF inst._step > 0 /\ Stops(inst._stop_predicate, inst)
        THEN Exhausted(w, i)
        ELSE Endless__next__(w, i, pick)

\* Dependent.__next__ with the _pick_next_state of Endless: the row is the
\* state of the instance itself once it has one
DependentOwnRow(w, i, pick) ==
    LET inst == w.instances[i]
        parent == w.instances[inst._parent]
        desc == w.descriptions[inst._backend]
        w1 == [w EXCEPT !.rngs[inst._state_rng].pos = @ + 1]
        row == IF inst._state = None THEN parent._state ELSE inst._state
        picked == IF row = None THEN Raise("ValueError")
                  ELSE _transition(desc, row, pick)
    IN  IF parent._has_stopped THEN Exhausted(w, i)
        ELSE IF picked.raised # ""
        THEN [w |-> w1, ret |-> None, puts |-> {}, raised |-> picked.raised]
        ELSE Instance__next__([w1 EXCEPT !.instances[i]._state = picked.value], i)

\* Dependent.__next__ that looks at the parent after the draw is taken
DependentDrawsFirst(w, i, pick) ==
    LET inst == w.instances[i]
        parent == w.instances[inst._parent]
        desc == w.descriptions[inst._backend]
        w1 == [w EXCEPT !.rngs[inst._state_rng].pos = @ + 1]
        picked == IF parent._state = None THEN Raise("ValueError")
                  ELSE _transition(desc, parent._state, pick)
    IN  IF parent._has_stopped THEN Exhausted(w1, i)
        ELSE IF picked.raised # ""
        THEN [w |-> w1, ret |-> None, puts |-> {}, raised |-> picked.raised]
        ELSE Instance__next__([w1 EXCEPT !.instances[i]._state = picked.value], i)

\* Dependent.__next__(): Endless.__next__ with _pick_initial_state and
\* _pick_next_state overridden: at every step the draw is taken from
\* _state_rng, then self._parent.state is read (ValueError while the parent
\* has no state) and is the row of the transition
Dependent__next__(w, i, pick) ==
    LET inst == w.instances[i]
        parent == w.instances[inst._parent]
        desc == w.descriptions[inst._backend]
        w1 == [w EXCEPT !.rngs[inst._state_rng].pos = @ + 1]
        picked == IF parent._state = None THEN Raise("ValueError")
                  ELSE _transition(desc, parent._state, pick)
    IN  IF parent._has_stopped THEN Exhausted(w, i)
        ELSE IF picked.raised # ""
        THEN [w |-> w1, ret |-> None, puts |-> {}, raised |-> picked.raised]
        ELSE Instance__next__([w1 EXCEPT !.instances[i]._state = picked.value], i)

\* next(instance): the __next__ of the class of the instance
next(w, i, pick) ==
    CASE w.instances[i].kind = "Finite"    -> Finite__next__(w, i, pick)
      [] w.instances[i].kind = "Dependent" -> Dependent__next__(w, i, pick)
      [] OTHER                             -> Endless__next__(w, i, pick)

\* islice(self, n) run to its end: next(self) is called until n states have
\* come or StopIteration ends it; picks are the draws of the calls. Any
\* other exception leaves with what was done so far.
RECURSIVE Advances(_, _, _, _)
Advances(w, i, n, picks) ==
    IF n = 0 THEN [w |-> w, states |-> <<>>, puts |-> {}, draws |-> {}, raised |-> ""]
    ELSE LET inst == w.instances[i]
             rng == w.rngs[inst._state_rng]
             \* the call of next and the rest of the run, each made once
             done == { IF r.raised = "StopIteration"
                       THEN {[w |-> r.w, states |-> <<>>, puts |-> {}, draws |-> {}, raised |-> ""]}
                       ELSE IF r.raised # ""
                       THEN {[w |-> r.w, states |-> <<>>, puts |-> {},
                              draws |-> IF r.w.rngs[inst._state_rng] # rng
                                        THEN {<<rng.stream, rng.pos, Head(picks)>>} ELSE {},
                              raised |-> r.raised]}
                       ELSE { [w |-> rest.w, states |-> <<r.ret>> \o rest.states,
                               puts |-> r.puts \cup rest.puts,
                               draws |-> (IF r.w.rngs[inst._state_rng] # rng
                                          THEN {<<rng.stream, rng.pos, Head(picks)>>} ELSE {})
                                         \cup rest.draws,
                               raised |-> rest.raised]
                              : rest \in {Advances(r.w, i, n - 1, Tail(picks))} }
                       : r \in {next(w, i, Head(picks))} }
         IN  CHOOSE result \in UNION done : TRUE

\* take that works on a copy of the instance and leaves the instance alone
TakeOfCopy(w, i, n, picks) ==
    LET r == Advances(w, i, n, picks)
    IN  [r EXCEPT !.w = w] @@ [ret |-> IF r.raised = "" THEN r.states ELSE None]

\* Instance.take(n): list(islice(self, n))
take(w, i, n, picks) ==
    LET r == Advances(w, i, n, picks)
    IN  r @@ [ret |-> IF r.raised = "" THEN r.states ELSE None]

\* Instance.skip(n): next(islice(self, n, n), None), which takes n states
\* from self and returns nothing
skip(w, i, n, picks) ==
    Advances(w, i, n, picks) @@ [ret |-> None]

\* Endless._verify_state(value): the bound is shape[0] of the source, the
\* first of the pair; the message of the ValueError reads
\* self._backend.dimension, which a Stochastic does not have (only Markov
\* does), so it is AttributeError that leaves the method
_verify_state(desc, value) ==
    IF value < 0 \/ value >= desc.shape[1] THEN Raise("AttributeError") ELSE Return(value)

\* the setter of Instance.state (lines 123-129): the verified value becomes
\* _forced_state; when _verify_state raises nothing is assigned
set_state(w, i, value) ==
    LET inst == w.instances[i]
        verified == _verify_state(w.descriptions[inst._backend], value)
    IN  IF verified.raised # "" THEN [w |-> w, raised |-> verified.raised]
        ELSE [w |-> [w EXCEPT !.instances[i]._forced_state = verified.value], raised |-> ""]

\* branch that returns an instance as a constructor would make it: no step
\* counted, no state yet
BranchRestarts(w, i, state) ==
    LET inst == w.instances[i]
        id == w.icount
        w1 == [w EXCEPT !.icount = @ + 1]
        verified == IF state = None THEN Return(None)
                    ELSE _verify_state(w.descriptions[inst._backend], state)
        new == [inst EXCEPT !._id = id, !._forced_state = IF state = None THEN @ ELSE verified.value, !._state_rng = id,
                            !._step = 0, !._state = None]
        bound == w.csets[inst._collectors]
        opened == { c \in bound : w.collectors[c].is_open }
    IN  IF verified.raised # "" THEN [w |-> w1, ret |-> None, raised |-> verified.raised]
        ELSE IF opened # {} THEN [w |-> w1, ret |-> None, raised |-> "AttributeError"]
        ELSE [w |-> [w1 EXCEPT !.csets[inst._collectors] = {},
                               !.instances[id] = new,
                               !.rngs[id] = w.rngs[inst._state_rng]],
              ret |-> id, raised |-> ""]

\* branch that assigns the state override to the parent: self.state = ...
BranchForcesParent(w, i, state) ==
    LET inst == w.instances[i]
        id == w.icount
        w1 == [w EXCEPT !.icount = @ + 1]
        verified == IF state = None THEN Return(None)
                    ELSE _verify_state(w.descriptions[inst._backend], state)
        forced == [inst EXCEPT !._forced_state = IF state = None THEN @ ELSE verified.value]
        new == [inst EXCEPT !._id = id, !._state_rng = id]
        bound == w.csets[inst._collectors]
        opened == { c \in bound : w.collectors[c].is_open }
    IN  IF verified.raised # "" THEN [w |-> w1, ret |-> None, raised |-> verified.raised]
        ELSE IF opened # {} THEN [w |-> w1, ret |-> None, raised |-> "AttributeError"]
        ELSE [w |-> [w1 EXCEPT !.csets[inst._collectors] = {},
                               !.instances[i] = forced,
                               !.instances[id] = new,
                               !.rngs[id] = w.rngs[inst._state_rng]],
              ret |-> id, raised |-> ""]

\* branch without line 219: the copy keeps the parent's _id
BranchKeepsId(w, i, state) ==
    LET inst == w.instances[i]
        id == w.icount
        w1 == [w EXCEPT !.icount = @ + 1]
        verified == IF state = None THEN Return(None)
                    ELSE _verify_state(w.descriptions[inst._backend], state)
        new == [inst EXCEPT !._forced_state = IF state = None THEN @ ELSE verified.value,
                            !._state_rng = id]
        bound == w.csets[inst._collectors]
        opened == { c \in bound : w.collectors[c].is_open }
    IN  IF verified.raised # "" THEN [w |-> w1, ret |-> None, raised |-> verified.raised]
        ELSE IF opened # {} THEN [w |-> w1, ret |-> None, raised |-> "AttributeError"]
        ELSE [w |-> [w1 EXCEPT !.csets[inst._collectors] = {},
                               !.instances[id] = new,
                               !.rngs[id] = w.rngs[inst._state_rng]],
              ret |-> id, raised |-> ""]

\* branch without line 309: the new instance keeps the Generator object that
\* copy(self) shares with the parent
BranchSharesRng(w, i, state) ==
    LET inst == w.instances[i]
        id == w.icount
        w1 == [w EXCEPT !.icount = @ + 1]
        verified == IF state = None THEN Return(None)
                    ELSE _verify_state(w.descriptions[inst._backend], state)
        new == [inst EXCEPT !._id = id, !._forced_state = IF state = None THEN @ ELSE verified.value]
        bound == w.csets[inst._collectors]
        opened == { c \in bound : w.collectors[c].is_open }
    IN  IF verified.raised # "" THEN [w |-> w1, ret |-> None, raised |-> verified.raised]
        ELSE IF opened # {} THEN [w |-> w1, ret |-> None, raised |-> "AttributeError"]
        ELSE [w |-> [w1 EXCEPT !.csets[inst._collectors] = {},
                               !.instances[id] = new],
              ret |-> id, raised |-> ""]

\* branch with a Generator started anew on the parent's stream in place of
\* the deepcopy of line 309
BranchRestartsRng(w, i, state) ==
    LET inst == w.instances[i]
        id == w.icount
        w1 == [w EXCEPT !.icount = @ + 1]
        verified == IF state = None THEN Return(None)
                    ELSE _verify_state(w.descriptions[inst._backend], state)
        new == [inst EXCEPT !._id = id, !._forced_state = IF state = None THEN @ ELSE verified.value, !._state_rng = id]
        bound == w.csets[inst._collectors]
        opened == { c \in bound : w.collectors[c].is_open }
    IN  IF verified.raised # "" THEN [w |-> w1, ret |-> None, raised |-> verified.raised]
        ELSE IF opened # {} THEN [w |-> w1, ret |-> None, raised |-> "AttributeError"]
        ELSE [w |-> [w1 EXCEPT !.csets[inst._collectors] = {},
                               !.instances[id] = new,
                               !.rngs[id] = [w.rngs[inst._state_rng] EXCEPT !.pos = 0]],
              ret |-> id, raised |-> ""]

\* Instance.branch(**kwargs) followed by the lines Endless.branch adds, for
\* kwargs that are empty (state = None) or {'state': state}.
\* new = copy(self) has the parent's fields, a pending _forced_state
\* included, and shares the _collectors set; Collector has no method
\* _redirect, so the call on the first open collector raises AttributeError.
\* new._state_rng = deepcopy(self._state_rng) is a Generator object of its
\* own, in the state the parent's is in.
Endless_branch(w, i, state) ==
    LET inst == w.instances[i]
        id == w.icount
        w1 == [w EXCEPT !.icount = @ + 1]
        verified == IF state = None THEN Return(None)
                    ELSE _verify_state(w.descriptions[inst._backend], state)
        new == [inst EXCEPT !._id = id, !._forced_state = IF state = None THEN @ ELSE verified.value, !._state_rng = id]
        bound == w.csets[inst._collectors]
        opened == { c \in bound : w.collectors[c].is_open }
    IN  IF verified.raised # "" THEN [w |-> w1, ret |-> None, raised |-> verified.raised]
        ELSE IF opened # {} THEN [w |-> w1, ret |-> None, raised |-> "AttributeError"]
        ELSE [w |-> [w1 EXCEPT !.csets[inst._collectors] = {},
                               !.instances[id] = new,
                               !.rngs[id] = w.rngs[inst._state_rng]],
              ret |-> id, raised |-> ""]

\* Endless.branch(my_seed = my_seed): Instance.branch, the Generator copied,
\* and new._backend = self._backend.variant(my_seed = my_seed)
Endless_branch_with(w, i, my_seed) ==
    LET b == Endless_branch(w, i, None)
        v == variant(b.w, w.instances[i]._backend, my_seed)
    IN  IF b.raised # "" THEN b
        ELSE [w |-> [v.w EXCEPT !.instances[b.ret]._backend = v.ret],
              ret |-> b.ret, raised |-> ""]

\* Collector(): Collector.__init__ with the id _gen_id() hands out
Collector__init__(w) ==
    [w EXCEPT !.collectors = Append(@, NewCollector(w.ccount)),
              !.ccount = @ + 1]

\* Collector.open(*instances) for one instance: _is_open = True and
\* instance._bind_collector(self)
open_on(w, c, i) ==
    [w EXCEPT !.collectors[c] = open(@),
              !.csets[w.instances[i]._collectors] = @ \cup {c}]

\* ------------------------------------------------------------------- Model
\* no Model object
NoModel == [_firing_order |-> <<>>, _tick |-> None]

\* self._firing_order[instance] = cycle(pattern) for every node: the entry
\* of an instance that is a key already is replaced where it stands, a new
\* key goes to the end; pos counts the next(fire) calls made on the cycle
RECURSIVE FiringOrder(_, _)
FiringOrder(nodes, order) ==
    IF nodes = <<>> THEN order
    ELSE LET node == Head(nodes)
             entry == [instance |-> node[1], pattern |-> node[2], pos |-> 0]
             hits == { k \in 1 .. Len(order) : order[k].instance = node[1] }
         IN  FiringOrder(Tail(nodes),
                         IF hits = {} THEN Append(order, entry)
                         ELSE [order EXCEPT ![CHOOSE k \in hits : TRUE] = entry])

\* Model(*nodes)
Model__init__(nodes) ==
    [_firing_order |-> FiringOrder(nodes, <<>>), _tick |-> 0]

\* the loops of Model.forward from node k of the running tick on: next(fire)
\* moves the node's cycle, next(instance, None) is called when the value is
\* truthy and swallows StopIteration only; _tick is counted when the nodes
\* of a tick are through. acc holds the objects, the Model, the calls
\* <<tick, instance>> made on instances, the draws taken and the exception
\* that ended the call. Every call is made once.
RECURSIVE Fire(_, _, _, _)
Fire(acc, end, k, picks) ==
    LET order == acc.model._firing_order
    IN  IF acc.model._tick >= end THEN acc
        ELSE IF k > Len(order)
        THEN CHOOSE result \in { Fire(a, end, 1, picks) :
                                    a \in {[acc EXCEPT !.model._tick = @ + 1]} } : TRUE
        ELSE IF order[k].pattern = <<>> THEN [acc EXCEPT !.raised = "StopIteration"]
        ELSE LET node == order[k]
                 fire == node.pattern[(node.pos % Len(node.pattern)) + 1]
                 inst == acc.w.instances[node.instance]
                 rng == acc.w.rngs[inst._state_rng]
                 done == { IF fire = 0
                           THEN { Fire(a, end, k + 1, picks) : a \in {moved} }
                           ELSE { IF r.raised \notin {"", "StopIteration"}
                                  THEN [moved EXCEPT !.w = r.w, !.raised = r.raised,
                                            !.fired = Append(@, <<moved.model._tick, node.instance>>),
                                            !.draws = @ \cup (IF r.w.rngs[inst._state_rng] # rng
                                                    THEN {<<rng.stream, rng.pos, Head(picks)>>}
                                                    ELSE {})]
                                  ELSE CHOOSE result \in
                                         { Fire(a, end, k + 1, Tail(picks)) :
                                             a \in {[moved EXCEPT !.w = r.w,
                                                 !.fired = Append(@, <<moved.model._tick, node.instance>>),
                                                 !.states = IF r.raised = "" THEN Append(@, <<node.instance, r.ret>>) ELSE @,
                                                 !.draws = @ \cup (IF r.w.rngs[inst._state_rng] # rng
                                                    THEN {<<rng.stream, rng.pos, Head(picks)>>}
                                                    ELSE {})]} } : TRUE
                                  : r \in {next(acc.w, node.instance, Head(picks))} }
                           : moved \in {[acc EXCEPT !.model._firing_order[k].pos = @ + 1]} }
             IN  CHOOSE result \in UNION done : TRUE

\* Model.forward(ticks)
forward(w, m, ticks, picks) ==
    Fire([w |-> w, model |-> m, fired |-> <<>>, states |-> <<>>, draws |-> {}, raised |-> ""],
         m._tick + ticks, 1, picks)

\* ------------------------------------------------------------------- state
VARIABLES
    collectors,   \* the Collector objects, in the order they were made
    Collector_count, \* Collector._count
    instances,    \* the instance objects, by _id
    csets,        \* the _collectors set objects, by the _id of the instance that made them
    Instance_count, \* Instance._count
    descriptions, \* the Stochastic objects
    Description_count, \* Description._count
    rngs,         \* the Generator objects, by the _id of the instance they were made for
    drawn,        \* the draws the random streams have given: <<stream, position, pick>>
    last,         \* the call made last: its arguments and its result
    hist,         \* history: per instance, the states it put or produced at steps 0, 1, 2, ...
    recorded,     \* history: the <<instance, step>> of the puts that returned True
    ncall,        \* history: number of calls made that count towards the run's bound
    running,      \* FALSE once a call has not returned
    model         \* the Model object

vars == <<collectors, Collector_count, instances, csets, Instance_count, descriptions,
          Description_count,
          rngs, drawn,
          last, hist, recorded, ncall, running, model>>

\* the objects the instances' operations work on
World == [collectors |-> collectors, instances |-> instances, csets |-> csets,
          icount |-> Instance_count, descriptions |-> descriptions,
          dcount |-> Description_count, rngs |-> rngs, ccount |-> Collector_count]

\* the two-state processes of the runs: 0 is seeded, with a uniform matrix
\* and a uniform initial distribution; 1 is unseeded, the cycle
\* [[0, 1], [1, 0]] started in state 0
TheDescriptions ==
    [d \in DescIds |->
        IF d = 0 THEN Stochastic(0, <<2, 2>>, 0, << <<1, 2>>, <<1, 2>> >>, None, <<1, 2>>)
        ELSE IF d = 1 THEN Stochastic(1, <<2, 2>>, None, << <<0, 2>>, <<2, 2>> >>, 0, <<>>)
        ELSE NoDescription]

NoCall == [op |-> "none"]

\* the collector the log-level calls are made on
C0 == 1

\* emitters as Collector.__doc__ asks of them ("Valid instances", lines
\* 83-88): _entry() returns a dict, with a backend that may be None. All but
\* the last emitter have backend a, the last has backend b.
InitLog(a, b) ==
    /\ collectors = <<NewCollector(0)>>
    /\ Collector_count = Len(collectors)
    /\ instances = [i \in InstIds |->
          [NewInstance("Instance", i, IF i # LastInst THEN a ELSE b) EXCEPT !._state = 0]]
    /\ csets = [i \in InstIds |-> {}]
    /\ Instance_count = Cardinality(InstIds)
    /\ descriptions = TheDescriptions
    /\ Description_count = Cardinality(Backends)
    /\ rngs = [i \in InstIds |-> NoRng]
    /\ drawn = {}
    /\ last = NoCall
    /\ hist = [i \in InstIds |-> <<>>]
    /\ recorded = {}
    /\ ncall = 0
    /\ running = TRUE
    /\ model = NoModel

\* collector.put(instance, step, state, backend) by a caller
Put(i, step, state) ==
    LET col == collectors[C0]
        r == put(col, i, step, state, instances[i]._backend)
    IN  /\ running
        /\ ncall < MaxCalls \/ ~col.is_open
        /\ collectors' = [collectors EXCEPT ![C0] = r.col]
        /\ last' = [op |-> "put", was_open |-> col.is_open,
                    dup |-> (<<i, step>> \in recorded), ret |-> r.ret]
        /\ recorded' = IF r.ret THEN recorded \cup {<<i, step>>} ELSE recorded
        /\ ncall' = IF col.is_open THEN ncall + 1 ELSE ncall
        /\ UNCHANGED <<model, instances, csets, Instance_count, descriptions, Description_count, Collector_count, rngs, drawn, hist, running>>

\* collector.redirect(src, dst) by a caller
Redirect(src, dst) ==
    LET col == collectors[C0]
        r == redirect(col, instances[src], instances[dst])
    IN  /\ running
        /\ ncall < MaxCalls \/ ~r.ret
        /\ collectors' = [collectors EXCEPT ![C0] = r.col]
        /\ last' = [op |-> "redirect", ret |-> r.ret, raised |-> r.raised]
        /\ running' = (r.raised # "no return")
        /\ ncall' = IF r.ret THEN ncall + 1 ELSE ncall
        /\ UNCHANGED <<model, instances, csets, Instance_count, descriptions, Description_count, Collector_count, rngs, drawn, hist, recorded>>

\* collector.open() by a caller
Open ==
    /\ running
    /\ collectors' = [collectors EXCEPT ![C0] = open(@)]
    /\ last' = [op |-> "open", was_open |-> collectors[C0].is_open]
    /\ UNCHANGED <<model, instances, csets, Instance_count, descriptions, Description_count, Collector_count, rngs, drawn, hist, recorded, ncall, running>>

\* collector.close() by a caller
Close ==
    /\ running
    /\ collectors' = [collectors EXCEPT ![C0] = close(@)]
    /\ last' = [op |-> "close"]
    /\ UNCHANGED <<model, instances, csets, Instance_count, descriptions, Description_count, Collector_count, rngs, drawn, hist, recorded, ncall, running>>

NextLog ==
    \/ \E i \in InstIds, step \in Steps, state \in States : Put(i, step, state)
    \/ \E src \in InstIds, dst \in InstIds : Redirect(src, dst)
    \/ Open
    \/ Close

\* two emitters of one group and a third of another
Spec == InitLog(0, 1) /\ [][NextLog]_vars

\* two emitters without a backend and a third with one
SpecNone == InitLog(None, 0) /\ [][NextLog]_vars

\* instance.put of its next step, by emitters that put their steps in order
\* into a collector that stays open
PutNext(i, state) ==
    LET col == collectors[C0]
        step == Len(hist[i])
        r == put(col, i, step, state, instances[i]._backend)
    IN  /\ running
        /\ ncall < MaxOrdered
        /\ collectors' = [collectors EXCEPT ![C0] = r.col]
        /\ last' = [op |-> "put", was_open |-> col.is_open,
                    dup |-> (<<i, step>> \in recorded), ret |-> r.ret]
        /\ hist' = [hist EXCEPT ![i] = Append(@, state)]
        /\ recorded' = IF r.ret THEN recorded \cup {<<i, step>>} ELSE recorded
        /\ ncall' = ncall + 1
        /\ UNCHANGED <<model, instances, csets, Instance_count, descriptions, Description_count, Collector_count, rngs, drawn, running>>

NextOrdered == \E i \in InstIds, state \in States : PutNext(i, state)

\* emitters of one group, each putting its steps 0, 1, 2, ... in order
SpecOrdered == InitLog(0, 0) /\ [][NextOrdered]_vars

\* ------------------------------------------------- runs of the instances
\* an id no object has yet
NoInstance(i) == NewInstance("none", i, None)

Exists(i) == instances[i].kind # "none"

\* after c0 = Collector(), c1 = Collector(), x = Endless(description 0)
InitInst ==
    /\ collectors = <<NewCollector(0), NewCollector(1)>>
    /\ Collector_count = Len(collectors)
    /\ instances = [i \in InstIds |-> IF i = 0 THEN NewEndless(0, 0, TheDescriptions[0].my_seed)
                                      ELSE NoInstance(i)]
    /\ csets = [i \in InstIds |-> {}]
    /\ Instance_count = 1
    /\ descriptions = TheDescriptions
    /\ Description_count = Cardinality(Backends)
    /\ rngs = [i \in InstIds |-> IF i = 0 THEN default_rng(0, TheDescriptions[0].my_seed) ELSE NoRng]
    /\ drawn = {}
    /\ last = NoCall
    /\ hist = [i \in InstIds |-> <<>>]
    /\ recorded = {}
    /\ ncall = 0
    /\ running = TRUE
    /\ model = NoModel

SetWorld(w) ==
    /\ collectors' = w.collectors
    /\ instances' = w.instances
    /\ csets' = w.csets
    /\ Instance_count' = w.icount
    /\ descriptions' = w.descriptions
    /\ Description_count' = w.dcount
    /\ Collector_count' = w.ccount
    /\ rngs' = w.rngs

\* Endless(description d)
Construct(d) ==
    /\ ncall < MaxOps
    /\ Instance_count \in InstIds
    /\ instances' = [instances EXCEPT ![Instance_count] = NewEndless(Instance_count, d, descriptions[d].my_seed)]
    /\ Instance_count' = Instance_count + 1
    /\ ncall' = ncall + 1
    /\ last' = [op |-> "Endless", ret |-> Instance_count]
    /\ rngs' = [rngs EXCEPT ![Instance_count] = default_rng(Instance_count, descriptions[d].my_seed)]
    /\ UNCHANGED <<model, collectors, csets, descriptions, Description_count, Collector_count, drawn, hist, recorded, running>>

\* c.open(instance)
Bind(c, i) ==
    /\ ncall < MaxOps
    /\ Exists(i)
    /\ SetWorld(open_on(World, c, i))
    /\ ncall' = ncall + 1
    /\ last' = [op |-> "open", was_open |-> collectors[c].is_open]
    /\ UNCHANGED <<model, drawn, hist, recorded, running>>

\* c.close()
CloseLog(c) ==
    /\ ncall < MaxOps
    /\ collectors' = [collectors EXCEPT ![c] = close(@)]
    /\ ncall' = ncall + 1
    /\ last' = [op |-> "close"]
    /\ UNCHANGED <<model, instances, csets, Instance_count, descriptions, Description_count, Collector_count, rngs, drawn, hist, recorded, running>>

\* the draw a stream gives at a position is the same whenever it is asked
Draws(rng, pick) ==
    \A t \in drawn : (t[1] = rng.stream /\ t[2] = rng.pos) => t[3] = pick

\* next(instance), the draw being pick
Next(i, pick) ==
    LET inst == instances[i]
        bound == csets[inst._collectors]
        r == Endless__next__(World, i, pick)
    IN  /\ Exists(i)
        /\ ncall < MaxOps
        /\ inst._step > 0 => Draws(rngs[inst._state_rng], pick)
        /\ SetWorld(r.w)
        /\ drawn' = IF inst._step > 0
                    THEN drawn \cup {<<rngs[inst._state_rng].stream, rngs[inst._state_rng].pos, pick>>}
                    ELSE drawn
        /\ ncall' = ncall + 1
        /\ last' = [op |-> "next", instance |-> i, step |-> inst._step,
                    opened |-> { c \in bound : collectors[c].is_open },
                    forced |-> inst._forced_state, prev |-> inst._state, pick |-> pick,
                    ret |-> r.ret, puts |-> r.puts, raised |-> r.raised]
        /\ hist' = IF r.raised = "" THEN [hist EXCEPT ![i] = Append(@, r.ret)] ELSE hist
        /\ UNCHANGED <<model, recorded, running>>

\* instance.branch() and instance.branch(state = state)
Branch(i, state) ==
    LET inst == instances[i]
        bound == csets[inst._collectors]
        r == Endless_branch(World, i, state)
    IN  /\ Exists(i)
        /\ ncall < MaxOps
        /\ Instance_count \in InstIds
        /\ SetWorld(r.w)
        /\ ncall' = ncall + 1
        /\ last' = [op |-> "branch", instance |-> i, step |-> inst._step, state |-> state,
                    opened |-> { c \in bound : collectors[c].is_open },
                    ret |-> r.ret, raised |-> r.raised]
        /\ hist' = IF r.raised = "" THEN [hist EXCEPT ![r.ret] = hist[i]] ELSE hist
        /\ UNCHANGED <<model, drawn, recorded, running>>

\* values a caller may assign to instance.state
ForceValues == {-3, 0, 1, 2}

\* instance.state = value
Force(i, value) ==
    LET r == set_state(World, i, value)
    IN  /\ Exists(i)
        /\ ncall < MaxOps
        /\ SetWorld(r.w)
        /\ ncall' = ncall + 1
        /\ last' = [op |-> "force", instance |-> i, value |-> value, raised |-> r.raised]
        /\ UNCHANGED <<model, drawn, hist, recorded, running>>

NextInst ==
    \/ \E d \in Backends : Construct(d)
    \/ \E c \in DOMAIN collectors, i \in InstIds : Bind(c, i)
    \/ \E c \in DOMAIN collectors : CloseLog(c)
    \/ \E i \in InstIds, pick \in Picks : Next(i, pick)
    \/ \E i \in InstIds, state \in States \cup {None} : Branch(i, state)

SpecInst == InitInst /\ [][NextInst]_vars

\* c = Collector()
NewLog ==
    /\ ncall < MaxOps
    /\ Len(collectors) < MaxLogs
    /\ SetWorld(Collector__init__(World))
    /\ ncall' = ncall + 1
    /\ last' = [op |-> "Collector", ret |-> Len(collectors) + 1]
    /\ UNCHANGED <<model, drawn, hist, recorded, running>>

\* objects made in any order: Collectors, instances, branches of instances
\* that are bound to open Collectors or are not
NextIds ==
    \/ NewLog
    \/ \E d \in Backends : Construct(d)
    \/ \E c \in DOMAIN collectors, i \in InstIds : Bind(c, i)
    \/ \E c \in DOMAIN collectors : CloseLog(c)
    \/ \E i \in InstIds, state \in States \cup {None} : Branch(i, state)

SpecIds == InitInst /\ [][NextIds]_vars

\* overrides of my_seed
Seeds == {0, 1}

\* description.variant(my_seed = seed)
Variant(d, seed) ==
    LET r == variant(World, d, seed)
    IN  /\ ncall < MaxOps
        /\ d < Description_count
        /\ Description_count \in DescIds
        /\ SetWorld(r.w)
        /\ ncall' = ncall + 1
        /\ last' = [op |-> "variant", receiver |-> d, seed |-> seed, ret |-> r.ret]
        /\ UNCHANGED <<model, drawn, hist, recorded, running>>

\* instance.branch(my_seed = seed)
BranchWith(i, seed) ==
    LET inst == instances[i]
        r == Endless_branch_with(World, i, seed)
    IN  /\ Exists(i)
        /\ ncall < MaxOps
        /\ Instance_count \in InstIds
        /\ Description_count \in DescIds
        /\ SetWorld(r.w)
        /\ ncall' = ncall + 1
        /\ last' = [op |-> "branch_with", instance |-> i, receiver |-> inst._backend,
                    seed |-> seed, ret |-> r.ret, raised |-> r.raised]
        /\ hist' = IF r.raised = "" THEN [hist EXCEPT ![r.ret] = hist[i]] ELSE hist
        /\ UNCHANGED <<model, drawn, recorded, running>>

\* descriptions and the instances that run them, bound to no Collector:
\* instances made and advanced, variants made directly and by branch
NextVariant ==
    \/ \E d \in Backends : Construct(d)
    \/ \E i \in InstIds, pick \in Picks : Next(i, pick)
    \/ \E d \in DescIds, seed \in Seeds : Variant(d, seed)
    \/ \E i \in InstIds, seed \in Seeds : BranchWith(i, seed)

SpecVariant == InitInst /\ [][NextVariant]_vars

\* the instances alone, bound to no Collector: made, advanced, forced and
\* branched
NextForce ==
    \/ \E d \in Backends : Construct(d)
    \/ \E i \in InstIds, pick \in Picks : Next(i, pick)
    \/ \E i \in InstIds, state \in States \cup {None} : Branch(i, state)
    \/ \E i \in InstIds, value \in ForceValues : Force(i, value)

SpecForce == InitInst /\ [][NextForce]_vars

\* the state setter and next() on instances that emit into Collectors
NextForced ==
    \/ \E d \in Backends : Construct(d)
    \/ \E c \in DOMAIN collectors, i \in InstIds : Bind(c, i)
    \/ \E i \in InstIds, pick \in Picks : Next(i, pick)
    \/ \E i \in InstIds, value \in ForceValues : Force(i, value)

SpecForced == InitInst /\ [][NextForced]_vars

\* after x = Finite(description 0, predicate), y = Dependent(description 0,
\* x), c0 = Collector(x), c1 = Collector(y)
InitStop ==
    /\ collectors = <<NewCollector(0), NewCollector(1)>>
    /\ Collector_count = Len(collectors)
    /\ descriptions = TheDescriptions
    /\ \E predicate \in Predicates :
          instances = [i \in InstIds |->
                          IF i = 0 THEN NewFinite(0, 0, TheDescriptions[0].my_seed, predicate)
                          ELSE IF i = 1 THEN NewDependent(1, 0, TheDescriptions[0].my_seed, 0)
                          ELSE NoInstance(i)]
    /\ csets = [i \in InstIds |-> IF i \in {0, 1} THEN {i + 1} ELSE {}]
    /\ Instance_count = 2
    /\ Description_count = Cardinality(Backends)
    /\ rngs = [i \in InstIds |-> IF i \in {0, 1}
                                  THEN default_rng(i, TheDescriptions[0].my_seed) ELSE NoRng]
    /\ drawn = {}
    /\ last = NoCall
    /\ hist = [i \in InstIds |-> <<>>]
    /\ recorded = {}
    /\ ncall = 0
    /\ running = TRUE
    /\ model = NoModel

\* next(instance) on an instance of any class, the draw being pick when one
\* is taken from _state_rng
Advance(i, pick) ==
    LET inst == instances[i]
        bound == csets[inst._collectors]
        rng == rngs[inst._state_rng]
        r == next(World, i, pick)
        drew == r.w.rngs[inst._state_rng] # rng
    IN  /\ Exists(i)
        /\ ncall < MaxOps
        /\ drew => Draws(rng, pick)
        /\ SetWorld(r.w)
        /\ drawn' = IF drew THEN drawn \cup {<<rng.stream, rng.pos, pick>>} ELSE drawn
        /\ ncall' = ncall + 1
        /\ last' = [op |-> "next", instance |-> i, step |-> inst._step,
                    opened |-> { c \in bound : collectors[c].is_open },
                    forced |-> inst._forced_state, prev |-> inst._state, pick |-> pick,
                    stopped |-> inst._has_stopped,
                    ret |-> r.ret, puts |-> r.puts, raised |-> r.raised]
        /\ hist' = IF r.raised = "" THEN [hist EXCEPT ![i] = Append(@, r.ret)] ELSE hist
        /\ UNCHANGED <<model, recorded, running>>

NextStop ==
    \/ \E i \in InstIds, pick \in Picks : Advance(i, pick)
    \/ \E i \in InstIds, value \in ForceValues : Force(i, value)

SpecStop == InitStop /\ [][NextStop]_vars

\* stop predicates lambda self: self._step >= N, for N = 0, 1, 2
StepPredicates == {"at_once", "after_one", "after_two"}

\* the N of a predicate of StepPredicates
Threshold(predicate) ==
    CASE predicate = "at_once"   -> 0
      [] predicate = "after_one" -> 1
      [] predicate = "after_two" -> 2

\* x = Finite(description d, stop_predicate)
ConstructFinite(d, predicate) ==
    /\ ncall < MaxOps
    /\ Instance_count \in InstIds
    /\ instances' = [instances EXCEPT ![Instance_count] =
                         NewFinite(Instance_count, d, descriptions[d].my_seed, predicate)]
    /\ Instance_count' = Instance_count + 1
    /\ ncall' = ncall + 1
    /\ last' = [op |-> "Finite", ret |-> Instance_count]
    /\ rngs' = [rngs EXCEPT ![Instance_count] = default_rng(Instance_count, descriptions[d].my_seed)]
    /\ UNCHANGED <<model, collectors, csets, descriptions, Description_count, Collector_count, drawn, hist, recorded, running>>

\* Finite instances with predicates of the step, bound to Collectors or not
NextFinite ==
    \/ \E d \in Backends, predicate \in StepPredicates : ConstructFinite(d, predicate)
    \/ \E c \in DOMAIN collectors, i \in InstIds : Bind(c, i)
    \/ \E i \in InstIds, pick \in Picks : Advance(i, pick)

SpecFinite == InitInst /\ [][NextFinite]_vars

\* y = Dependent(description d, input)
ConstructDependent(d, input) ==
    LET r == Dependent__init__(World, d, input)
    IN  /\ ncall < MaxOps
        /\ Exists(input)
        /\ Instance_count \in InstIds
        /\ SetWorld(r.w)
        /\ ncall' = ncall + 1
        /\ last' = [op |-> "Dependent", input |-> input, ret |-> r.ret, raised |-> r.raised]
        /\ UNCHANGED <<model, drawn, hist, recorded, running>>

\* Dependent instances on Endless and on Dependent instances, advanced in any
\* order, with and without a forced state
NextDependent ==
    \/ \E d \in Backends, input \in InstIds : ConstructDependent(d, input)
    \/ \E i \in InstIds, pick \in Picks : Advance(i, pick)
    \/ \E i \in InstIds, value \in States : Force(i, value)

SpecDependent == InitInst /\ [][NextDependent]_vars

\* after x = Endless(d), y = Finite(d, lambda self: self._step >= 2),
\* c0 = Collector(x), c1 = Collector(y), d being a model with my_seed 0, a
\* uniform matrix and the fixed initial state 0
InitTake ==
    /\ collectors = <<NewCollector(0), NewCollector(1)>>
    /\ Collector_count = Len(collectors)
    /\ descriptions = [TheDescriptions EXCEPT
                           ![0] = Stochastic(0, <<2, 2>>, 0, << <<1, 2>>, <<1, 2>> >>, 0, <<>>)]
    /\ instances = [i \in InstIds |->
                        IF i = 0 THEN NewEndless(0, 0, 0)
                        ELSE IF i = 1 THEN NewFinite(1, 0, 0, "after_two")
                        ELSE NoInstance(i)]
    /\ csets = [i \in InstIds |-> IF i \in {0, 1} THEN {i + 1} ELSE {}]
    /\ Instance_count = 2
    /\ Description_count = Cardinality(Backends)
    /\ rngs = [i \in InstIds |-> IF i \in {0, 1} THEN default_rng(i, 0) ELSE NoRng]
    /\ drawn = {}
    /\ last = NoCall
    /\ hist = [i \in InstIds |-> <<>>]
    /\ recorded = {}
    /\ ncall = 0
    /\ running = TRUE
    /\ model = NoModel

\* the draws r took agree with what the streams gave before
DrawsAll(draws) ==
    \A t \in draws : Draws([stream |-> t[1], pos |-> t[2]], t[3])

\* instance.take(n), the draws of its calls of next being picks; hist keeps
\* the states the instance has produced
Take(i, n, picks) ==
    LET inst == instances[i]
        bound == csets[inst._collectors]
    IN  /\ Exists(i)
        /\ ncall < MaxOps
        /\ inst._step + n <= MaxTake
        /\ \E r \in {take(World, i, n, picks)} :
              /\ DrawsAll(r.draws)
              /\ SetWorld(r.w)
              /\ drawn' = drawn \cup r.draws
              /\ last' = [op |-> "take", instance |-> i, n |-> n, step |-> inst._step,
                          opened |-> { c \in bound : collectors[c].is_open },
                          ret |-> r.ret, states |-> r.states, puts |-> r.puts,
                          raised |-> r.raised]
              /\ hist' = [hist EXCEPT ![i] = @ \o r.states]
        /\ ncall' = ncall + 1
        /\ UNCHANGED <<model, recorded, running>>

\* instance.skip(n)
Skip(i, n, picks) ==
    LET inst == instances[i]
        bound == csets[inst._collectors]
    IN  /\ Exists(i)
        /\ ncall < MaxOps
        /\ inst._step + n <= MaxTake
        /\ \E r \in {skip(World, i, n, picks)} :
              /\ DrawsAll(r.draws)
              /\ SetWorld(r.w)
              /\ drawn' = drawn \cup r.draws
              /\ last' = [op |-> "skip", instance |-> i, n |-> n, step |-> inst._step,
                          opened |-> { c \in bound : collectors[c].is_open },
                          ret |-> r.ret, states |-> r.states, puts |-> r.puts,
                          raised |-> r.raised]
              /\ hist' = [hist EXCEPT ![i] = @ \o r.states]
        /\ ncall' = ncall + 1
        /\ UNCHANGED <<model, recorded, running>>

NextTake ==
    \/ \E i \in InstIds, n \in 0 .. MaxTake : \E picks \in [1 .. n -> Picks] : Take(i, n, picks)
    \/ \E i \in InstIds, n \in 0 .. MaxTake : \E picks \in [1 .. n -> Picks] : Skip(i, n, picks)

SpecTake == InitTake /\ [][NextTake]_vars

\* after x = Endless(description 0), c0 = Collector(x), c1 = Collector(x)
InitEmit ==
    /\ collectors = <<NewCollector(0), NewCollector(1)>>
    /\ Collector_count = Len(collectors)
    /\ instances = [i \in InstIds |-> IF i = 0 THEN NewEndless(0, 0, TheDescriptions[0].my_seed)
                                      ELSE NoInstance(i)]
    /\ csets = [i \in InstIds |-> IF i = 0 THEN DOMAIN collectors ELSE {}]
    /\ Instance_count = 1
    /\ descriptions = TheDescriptions
    /\ Description_count = Cardinality(Backends)
    /\ rngs = [i \in InstIds |-> IF i = 0 THEN default_rng(0, TheDescriptions[0].my_seed) ELSE NoRng]
    /\ drawn = {}
    /\ last = NoCall
    /\ hist = [i \in InstIds |-> <<>>]
    /\ recorded = {}
    /\ ncall = 0
    /\ running = TRUE
    /\ model = NoModel

\* c.put(instance, step, state, instance._backend) by a caller, for a step
\* the instance may not have reached
PutAhead(c, i, step, state) ==
    LET r == put(collectors[c], i, step, state, instances[i]._backend)
    IN  /\ Exists(i)
        /\ ncall < MaxOps
        /\ collectors' = [collectors EXCEPT ![c] = r.col]
        /\ ncall' = ncall + 1
        /\ last' = [op |-> "put", collector |-> c, instance |-> i, step |-> step, ret |-> r.ret]
        /\ UNCHANGED <<model, instances, csets, Instance_count, descriptions, Description_count, Collector_count, rngs, drawn, hist, recorded, running>>

\* instances that emit into Collectors which are closed, or which hold their
\* step already
NextEmit ==
    \/ \E c \in DOMAIN collectors : CloseLog(c)
    \/ \E c \in DOMAIN collectors, i \in InstIds, step \in Steps, state \in States :
          PutAhead(c, i, step, state)
    \/ \E i \in InstIds, pick \in Picks : Next(i, pick)

SpecEmit == InitEmit /\ [][NextEmit]_vars

\* (input size, output size) of the models the state setter is tried on
Shapes == {<<1, 2>>, <<2, 1>>, <<2, 2>>}

\* Stochastic(shape, my_seed, matrix, initial_state) with every row of the
\* matrix and the initial vector uniform
Uniform(id, shape, my_seed) ==
    Stochastic(id, shape, my_seed,
               [r \in 1 .. shape[1] |-> [k \in 1 .. shape[2] |-> (2 * k) \div shape[2]]],
               None,
               [k \in 1 .. shape[1] |-> (2 * k) \div shape[1]])

\* one instance of a model of any of the shapes
InitShape ==
    /\ collectors = <<NewCollector(0), NewCollector(1)>>
    /\ Collector_count = Len(collectors)
    /\ \E shape \in Shapes :
          descriptions = [TheDescriptions EXCEPT ![0] = Uniform(0, shape, 0)]
    /\ instances = [i \in InstIds |-> IF i = 0 THEN NewEndless(0, 0, 0) ELSE NoInstance(i)]
    /\ csets = [i \in InstIds |-> {}]
    /\ Instance_count = 1
    /\ Description_count = Cardinality(Backends)
    /\ rngs = [i \in InstIds |-> IF i = 0 THEN default_rng(0, 0) ELSE NoRng]
    /\ drawn = {}
    /\ last = NoCall
    /\ hist = [i \in InstIds |-> <<>>]
    /\ recorded = {}
    /\ ncall = 0
    /\ running = TRUE
    /\ model = NoModel

NextShape ==
    \/ \E d \in Backends : Construct(d)
    \/ \E i \in InstIds, pick \in Picks : Next(i, pick)
    \/ \E i \in InstIds, value \in ForceValues : Force(i, value)

SpecShape == InitShape /\ [][NextShape]_vars

\* ------------------------------------------------------------------ claims
Log == collectors[C0]

\* the chunk objects of one tape
TapeChunks(col, g, i) == { col.tapes[g][i][k] : k \in 1 .. Len(col.tapes[g][i]) }

\* the raw chunks of the other instances of a group
OthersRaw(col, g, i) ==
    { c \in UNION { TapeChunks(col, g, j) : j \in InstIds \ {i} } : col.chunks[c].type_ = "RAW" }

\* a reference chunk stands only for states its target holds at those steps
RefIsBacked(col, g, i, c) ==
    LET ref == col.chunks[c]
        raw == col.chunks[ref.point_to]
    IN  /\ ref.point_to \in OthersRaw(col, g, i)
        /\ \A step \in ref.start .. (ref.start + ref.length - 1) :
              /\ step < Len(hist[i])
              /\ raw.start <= step
              /\ step < raw.start + Len(raw.data)
              /\ raw.data[step - raw.start + 1] = hist[i][step + 1]

\* C1: when instances of one group put their steps 0, 1, 2, ... in order into
\* an open Collector, list(playback(i)) is the sequence of states instance i
\* put, and a reference chunk appears only where another instance's raw
\* chunk holds that state at that step.
C1_PlaybackIsWhatWasPut ==
    \A i \in InstIds :
        /\ playback(Log, instances[i]).value = hist[i]
        /\ \A c \in TapeChunks(Log, 0, i) :
              Log.chunks[c].type_ = "REF" => RefIsBacked(Log, 0, i, c)

\* C4: every ChunkRef of every tape points to a ChunkRaw.
C4_RefPointsToRaw ==
    \A g \in GroupKeys, i \in InstIds : \A c \in TapeChunks(Log, g, i) :
        Log.chunks[c].type_ = "REF" =>
            /\ Log.chunks[c].point_to \in 1 .. Len(Log.chunks)
            /\ Log.chunks[Log.chunks[c].point_to].type_ = "RAW"

\* C4 witness: a redirect has copied a tape that holds a ChunkRef, and a put
\* has made one
C4_Witness ==
    /\ last.op = "redirect" /\ last.ret
    /\ \E g \in GroupKeys, i \in InstIds, j \in InstIds :
          /\ i # j
          /\ \E c \in TapeChunks(Log, g, i) \cap TapeChunks(Log, g, j) :
                Log.chunks[c].type_ = "REF"

\* C5: on an open log, put returns False if and only if the same instance
\* has already recorded that step.
C5_FalseIffDuplicate ==
    (last.op = "put" /\ last.was_open) => (last.ret = FALSE <=> last.dup)

\* what a caller can ask of the log about one instance
Queries(col, inst) ==
    << playback(col, inst), length(col, inst), count(col, inst, 1),
       [step \in 0 .. (MaxStep + 1) |-> retrieve(col, inst, step)] >>

\* C6: while the log is closed, every put returns False and leaves the tapes
\* as they are, and close() itself changes no answer of playback, retrieve,
\* length and count.
C6_ClosedRejects ==
    [][ /\ (last'.op = "put" /\ ~last'.was_open) =>
              /\ last'.ret = FALSE
              /\ collectors' = collectors
        /\ last'.op = "close" =>
              /\ collectors'[C0].tapes = Log.tapes
              /\ collectors'[C0].chunks = Log.chunks
              /\ \A i \in InstIds :
                    Queries(collectors'[C0], instances'[i]) = Queries(Log, instances[i])
      ]_vars

\* C6 witness: a put was made into a closed log that holds recorded states
C6_Witness ==
    /\ last.op = "put" /\ ~last.was_open
    /\ \E i \in InstIds : Len(playback(Log, instances[i]).value) > 0

\* C7: once closed, a Collector stays closed, whatever is called on it.
C7_ClosePermanent == [][ ~Log.is_open => ~collectors'[C0].is_open ]_vars

\* C7 as amended: a closed Collector stays closed under put, redirect and
\* close; only open() makes it accept entries again.
C7_OnlyOpenReopens ==
    [][ (~Log.is_open /\ collectors'[C0].is_open) => last'.op = "open" ]_vars

\* C7 witness: open() was called on a closed Collector, which is open again
C7_Witness == last.op = "open" /\ ~last.was_open /\ Log.is_open

\* the group an instance's entries are filed under
Group(i) == GroupOf(instances[i]._backend)

Recorded(i) == InGroup(Log, Group(i), i)

\* C8: retrieve(instance, step) is the step-th element of
\* list(playback(instance)) for 0 <= step < length, and None from there on.
C8_RetrieveIsPlayback ==
    \A i \in InstIds : Recorded(i) =>
        LET pb == playback(Log, instances[i]).value
        IN  \A step \in 0 .. (MaxStep + 1) :
                LET r == retrieve(Log, instances[i], step)
                IN  /\ r.raised = ""
                    /\ r.value = IF step < Len(pb) THEN pb[step + 1] ELSE None

\* number of steps the chunks of a tape stand for
RECURSIVE TapeLength(_, _)
TapeLength(col, tape) ==
    IF tape = <<>> THEN 0
    ELSE LET chunk == col.chunks[Head(tape)]
         IN  (IF chunk.type_ = "RAW" THEN Len(chunk.data) ELSE chunk.length)
             + TapeLength(col, Tail(tape))

\* C9: length(instance) is the sum of the lengths of the raw and reference
\* chunks of the instance's tape.
C9_LengthIsTotal ==
    \A i \in InstIds : Recorded(i) =>
        LET n == length(Log, instances[i])
        IN  n.raised = "" /\ n.value = TapeLength(Log, Log.tapes[Group(i)][i])

\* C10: a ChunkRef in a tape of one group points to a raw chunk of a tape of
\* the same group.
C10_NoMergeAcrossGroups ==
    \A g \in GroupKeys, i \in InstIds : \A c \in TapeChunks(Log, g, i) :
        Log.chunks[c].type_ = "REF" =>
            \E j \in InstIds : Log.chunks[c].point_to \in TapeChunks(Log, g, j)

\* C10 witness: two groups hold the same state at the same step, each in a
\* raw chunk of its own, and the put that came second was recorded
C10_Witness ==
    /\ last.op = "put" /\ last.ret
    /\ \E g \in GroupKeys, h \in GroupKeys, i \in InstIds, j \in InstIds :
          /\ g # h
          /\ \E c \in TapeChunks(Log, g, i), d \in TapeChunks(Log, h, j) :
                /\ Log.chunks[c].type_ = "RAW" /\ Log.chunks[d].type_ = "RAW"
                /\ Log.chunks[c].start = Log.chunks[d].start
                /\ Log.chunks[c].data = Log.chunks[d].data
          /\ \E k \in InstIds : \E c \in TapeChunks(Log, g, k) : Log.chunks[c].type_ = "REF"

\* --------------------------------------------------- claims on the instances
\* C2: when an instance that is bound to an open Collector and has advanced
\* k >= 1 times is branched, branch() returns the new instance, and in every
\* Collector that was open and bound, playback(branch) is what the parent
\* has recorded so far, followed by what the branch has produced since.
C2_BranchReplaysPrefix ==
    (last.op = "branch" /\ last.opened # {} /\ last.step >= 1) =>
        /\ last.raised = ""
        /\ \A c \in last.opened :
              playback(collectors[c], instances[last.ret]).value = hist[last.ret]

\* C3: a successful next() has called put, on each bound open Collector and
\* on no other, with the instance's entry whose step is _step as it was
\* before the call and whose state is the state returned; after it _step is
\* one more. Hence _step is the number of states the instance has produced.
C3_EmitThenCount ==
    /\ (last.op = "next" /\ last.raised = "") =>
          /\ { p.collector : p \in last.puts } = last.opened
          /\ \A p \in last.puts :
                /\ p.entry.instance = last.instance
                /\ p.entry.step = last.step
                /\ p.entry.state = last.ret
          /\ instances[last.instance]._step = last.step + 1
    /\ \A i \in InstIds : Exists(i) => instances[i]._step = Len(hist[i])

\* C3 witness: the second advance of an instance has put its entry into two
\* open Collectors
C3_Witness ==
    /\ last.op = "next" /\ last.raised = ""
    /\ last.step = 1
    /\ Cardinality(last.opened) = 2
    /\ \A p \in last.puts : p.ret

RngOf(i) == rngs[instances[i]._state_rng]

\* C12: no two instances hold the same Generator object, a branch included,
\* and a call of next() or of the state setter on one instance leaves every
\* other instance, and the Generator it holds, as they were: the draws the
\* other takes afterwards are those it would have taken.
C12_IndependentStreams ==
    [][ /\ \A i \in InstIds, j \in InstIds :
              (i # j /\ instances'[i].kind = "Endless" /\ instances'[j].kind = "Endless")
                  => instances'[i]._state_rng # instances'[j]._state_rng
        /\ \A i \in InstIds :
              (last'.op \in {"next", "force"} /\ last'.instance = i) =>
                  \A j \in InstIds \ {i} : Exists(j) =>
                      /\ instances'[j] = instances[j]
                      /\ rngs'[instances[j]._state_rng] = RngOf(j)
      ]_vars

\* C12 witness: the parent of a branch has taken a draw the branch has not
C12_Witness ==
    /\ last.op = "next" /\ last.raised = "" /\ last.step >= 1
    /\ \E j \in InstIds \ {last.instance} :
          /\ Exists(j)
          /\ RngOf(j).stream = <<"fresh", last.instance>>
          /\ RngOf(j).pos < RngOf(last.instance).pos

C14_BranchSubscribed ==
    (last.op = "branch" /\ last.opened # {}) =>
        /\ last.raised = ""
        /\ last.opened \subseteq csets[instances[last.ret]._collectors]

\* C15: branch(state = s) that returns gives the new instance the pending
\* forced state s and the parent's _backend, changes no Stochastic, and
\* leaves the parent, its pending forced state and its Generator as they
\* were; and an advance of an instance with a pending forced state returns
\* that state, so the branch's next advance returns s.
C15_BranchStateForcesBranchOnly ==
    [][ /\ (last'.op = "branch" /\ last'.raised = "" /\ last'.state # None) =>
              LET p == last'.instance
                  b == last'.ret
              IN  /\ instances'[b]._forced_state = last'.state
                  /\ instances'[b]._backend = instances[p]._backend
                  /\ descriptions' = descriptions
                  /\ instances'[p] = instances[p]
                  /\ rngs'[instances[p]._state_rng] = RngOf(p)
        /\ (last'.op = "next" /\ instances[last'.instance]._forced_state # None) =>
              /\ last'.raised = ""
              /\ last'.ret = instances[last'.instance]._forced_state
      ]_vars

\* C15 witness: a branch made with state = s, off a parent in another state
\* and with nothing pending, has advanced once and returned s
C15_Witness ==
    /\ last.op = "next" /\ last.raised = "" /\ last.forced # None
    /\ last.ret = last.forced
    /\ \E p \in InstIds \ {last.instance} :
          /\ Exists(p)
          /\ RngOf(last.instance).stream = <<"fresh", p>>
          /\ instances[p]._step = last.step
          /\ instances[p]._state # last.forced
          /\ instances[p]._forced_state = None

\* ------------------------------------------------- claims on descriptions
\* C16: variant(my_seed = v), called directly or by branch(my_seed = v),
\* leaves every Stochastic that existed before the call as it was, the
\* receiver and its _id included, and the object it returns carries the
\* override.
C16_VariantKeepsReceiver ==
    [][ (last'.op = "variant" \/ (last'.op = "branch_with" /\ last'.raised = "")) =>
            /\ \A d \in DescIds : d < Description_count => descriptions'[d] = descriptions[d]
            /\ descriptions'[Description_count].my_seed = last'.seed
      ]_vars

\* ----------------------------------------------------------- claims on ids
\* C17: the k-th Collector made has _id k - 1 and Collector._count is the
\* number made; the instance made when Instance._count was n has _id n, so
\* the ids of the instances are pairwise distinct and increase in the order
\* of creation; each constructor call and each branch() raises the counter of
\* its class by one and no call changes the _id of an object that exists.
C17_IdsCountCreations ==
    [][ /\ Collector_count' = Len(collectors')
        /\ \A k \in DOMAIN collectors' : collectors'[k]._id = k - 1
        /\ \A k \in DOMAIN collectors : collectors'[k]._id = collectors[k]._id
        /\ \A i \in InstIds : Exists(i)' =>
              /\ instances'[i]._id = i
              /\ i < Instance_count'
        /\ \A i \in InstIds : Exists(i) => instances'[i]._id = instances[i]._id
        /\ Instance_count' = IF last'.op \in {"Endless", "branch"}
                              THEN Instance_count + 1 ELSE Instance_count
        /\ last'.op = "Endless" => last'.ret = Instance_count
        /\ (last'.op = "branch" /\ last'.raised = "") => last'.ret = Instance_count
        /\ Collector_count' = IF last'.op = "Collector"
                               THEN Collector_count + 1 ELSE Collector_count
      ]_vars

\* C17 witness: a third Collector was made, and a branch has come back after
\* a branch that raised
C17_Witness ==
    /\ last.op = "branch" /\ last.raised = ""
    /\ last.ret = LastInst
    /\ ~Exists(1)
    /\ Len(collectors) = MaxLogs

\* ------------------------------------------------- claims on the forced state
\* C18: instance.state = s with a valid s makes s the pending forced state
\* and changes neither the state nor the step; the next() after it returns s,
\* leaves s as the state, puts s into every open bound Collector and leaves no
\* forced state pending; a next() with no forced state pending, after the
\* first, returns the transition of the model from the row of the state the
\* instance had, for the draw taken - so after a forced s from row s, and a
\* forced state is taken by one next() only.
C18_ForcedOnce ==
    [][ /\ (last'.op = "force" /\ last'.raised = "") =>
              LET i == last'.instance
              IN  /\ instances'[i] = [instances[i] EXCEPT !._forced_state = last'.value]
                  /\ rngs' = rngs
        /\ (last'.op = "next" /\ last'.raised = "") =>
              LET i == last'.instance
                  inst == instances[i]
                  desc == descriptions[inst._backend]
              IN  /\ instances'[i]._forced_state = None
                  /\ instances'[i]._state = last'.ret
                  /\ inst._forced_state # None =>
                        /\ last'.ret = inst._forced_state
                        /\ { p.collector : p \in last'.puts } = last'.opened
                        /\ \A p \in last'.puts : p.entry.state = inst._forced_state
                  /\ (inst._forced_state = None /\ inst._step > 0) =>
                        last'.ret = _transition(desc, inst._state, last'.pick).value
      ]_vars

\* C18 witness: the next() after a forced next(), on an instance of the
\* cycle, whose own draw leads away from the forced state, emitted it
C18_Witness ==
    /\ last.op = "next" /\ last.raised = ""
    /\ last.forced = None /\ last.step > 0
    /\ last.puts # {}
    /\ \E i \in InstIds :
          /\ i = last.instance
          /\ Len(hist[i]) = 2
          /\ hist[i][1] = 1
          /\ hist[i][2] = 0
          /\ instances[i]._backend = 1

\* C19: instance.state = s is accepted exactly when 0 <= s < output size of
\* the model, the second of the pair shape; when it raises, the pending forced
\* state, the state and the step of every instance are what they were.
C19_AcceptsOutputStates ==
    [][ last'.op = "force" =>
          LET desc == descriptions[instances[last'.instance]._backend]
          IN  /\ (last'.raised = "") <=> (0 <= last'.value /\ last'.value < desc.shape[2])
              /\ last'.raised # "" => instances' = instances
      ]_vars

\* ------------------------------------------------------- claims on stopping
\* C20: a next() of a Finite or Dependent instance that raises StopIteration
\* sets _has_stopped; _has_stopped of no instance is ever unset; and a next()
\* of a Finite or Dependent instance whose _has_stopped is set raises
\* StopIteration again, puts nothing into any Collector and leaves every
\* instance, every Generator and every Collector as it was.
C20_StoppedIsAbsorbing ==
    [][ /\ \A i \in InstIds : (Exists(i) /\ instances[i]._has_stopped) =>
              instances'[i]._has_stopped
        /\ (last'.op = "next" /\ last'.raised = "StopIteration") =>
              instances'[last'.instance]._has_stopped
        /\ (last'.op = "next" /\ last'.stopped
                /\ instances[last'.instance].kind \in {"Finite", "Dependent"}) =>
              /\ last'.raised = "StopIteration"
              /\ last'.puts = {}
              /\ instances' = instances
              /\ rngs' = rngs
              /\ collectors' = collectors
              /\ drawn' = drawn
      ]_vars

\* C20 witness: a Dependent instance bound to an open Collector has signalled
\* exhaustion for the second time, its parent being a Finite instance that
\* has stopped
C20_Witness ==
    /\ last.op = "next" /\ last.raised = "StopIteration" /\ last.stopped
    /\ instances[last.instance].kind = "Dependent"
    /\ LET parent == instances[instances[last.instance]._parent]
       IN  /\ parent.kind = "Finite"
           /\ parent._has_stopped
    /\ last.opened # {}

\* C21: a Finite instance with the predicate _step >= N returns a state and
\* counts a step at every next() while fewer than max(N, 1) states have come,
\* the first next() included whatever N is; from then on next() raises
\* StopIteration, takes no draw from the Generator, puts nothing into any
\* Collector and leaves step and state as they were. The states that have
\* come are never more than max(N, 1).
C21_StopsAfterN ==
    [][ \A i \in InstIds :
          (last'.op = "next" /\ last'.instance = i /\ instances[i].kind = "Finite") =>
              LET inst == instances[i]
                  N == Threshold(inst._stop_predicate)
                  most == IF N >= 1 THEN N ELSE 1
              IN  /\ inst._step = Len(hist[i])
                  /\ Len(hist'[i]) <= most
                  /\ inst._step < most =>
                        /\ last'.raised = ""
                        /\ instances'[i]._step = inst._step + 1
                        /\ hist'[i] = Append(hist[i], last'.ret)
                        /\ { p.collector : p \in last'.puts } = last'.opened
                  /\ inst._step >= most =>
                        /\ last'.raised = "StopIteration"
                        /\ rngs' = rngs
                        /\ drawn' = drawn
                        /\ last'.puts = {}
                        /\ collectors' = collectors
                        /\ instances'[i] = [inst EXCEPT !._has_stopped = TRUE]
      ]_vars

\* C21 witness: a Finite instance with N = 2, bound to an open Collector,
\* raised StopIteration after its second state
C21_Witness ==
    /\ last.op = "next" /\ last.raised = "StopIteration"
    /\ last.opened # {}
    /\ instances[last.instance].kind = "Finite"
    /\ instances[last.instance]._stop_predicate = "after_two"
    /\ Len(hist[last.instance]) = 2

\* C22 as stated: once the Finite parent has reached the step of its
\* predicate (_step >= 1 for the predicate "after_one"), the next() of the
\* Dependent instance raises StopIteration.
C22_StopsWhenParentReachedN ==
    [][ \A i \in InstIds :
          (/\ last'.op = "next" /\ last'.instance = i
           /\ instances[i].kind = "Dependent"
           /\ instances[instances[i]._parent].kind = "Finite"
           /\ instances[instances[i]._parent]._stop_predicate = "after_one"
           /\ instances[instances[i]._parent]._step >= 1) =>
              last'.raised = "StopIteration"
      ]_vars

\* C22, amended: the next() of a Dependent instance raises StopIteration
\* exactly when a next() of its parent has raised StopIteration before
\* (_has_stopped of the parent); it then takes no draw from the Generator,
\* puts nothing into any Collector and changes of the instance nothing but
\* _has_stopped, and the parent stays as it was.
C22_StopsWhenParentHasStopped ==
    [][ \A i \in InstIds :
          (last'.op = "next" /\ last'.instance = i /\ instances[i].kind = "Dependent") =>
              LET inst == instances[i]
                  parent == instances[inst._parent]
              IN  /\ (last'.raised = "StopIteration") <=> parent._has_stopped
                  /\ parent._has_stopped =>
                        /\ rngs' = rngs
                        /\ drawn' = drawn
                        /\ last'.puts = {}
                        /\ collectors' = collectors
                        /\ instances' = [instances EXCEPT ![i]._has_stopped = TRUE]
      ]_vars

\* C22 witness: a Dependent instance that has a state and is bound to an open
\* Collector raised StopIteration for the first time
C22_Witness ==
    /\ last.op = "next" /\ last.raised = "StopIteration" /\ ~last.stopped
    /\ instances[last.instance].kind = "Dependent"
    /\ instances[last.instance]._step > 0
    /\ last.opened # {}

\* C23: a next() of a Dependent instance that returns, no forced state
\* pending, returns the transition of its model from the row of the state the
\* parent has at that moment, for the draw at the position of its own
\* Generator, at the first step as at the later ones, whatever state the
\* instance itself has; the Generator moves on by one draw and the parent and
\* the parent's Generator stay as they were.
C23_RowOfParent ==
    [][ \A i \in InstIds :
          (/\ last'.op = "next" /\ last'.instance = i /\ last'.raised = ""
           /\ instances[i].kind = "Dependent") =>
              LET inst == instances[i]
                  parent == instances[inst._parent]
                  desc == descriptions[inst._backend]
                  rng == rngs[inst._state_rng]
              IN  /\ inst._forced_state = None =>
                        last'.ret = _transition(desc, parent._state, last'.pick).value
                  /\ <<rng.stream, rng.pos, last'.pick>> \in drawn'
                  /\ rngs'[inst._state_rng] = [rng EXCEPT !.pos = @ + 1]
                  /\ instances'[inst._parent] = parent
                  /\ rngs'[parent._state_rng] = rngs[parent._state_rng]
      ]_vars

\* C23 witness: a Dependent instance of the cycle returned the successor of
\* its parent's state, which is not the successor of the state it had itself
C23_Witness ==
    /\ last.op = "next" /\ last.raised = "" /\ last.forced = None
    /\ instances[last.instance].kind = "Dependent"
    /\ instances[last.instance]._backend = 1
    /\ last.prev = 0
    /\ instances[instances[last.instance]._parent]._state = 1
    /\ last.ret = 0

\* ---------------------------------------------------- claims on take and skip
\* one sequence is the beginning of the other
Agree(s, t) ==
    \A k \in 1 .. Len(s) : k <= Len(t) => s[k] = t[k]

\* C24: take(n) and skip(n) go on from where the instance is: the states they
\* produce follow those it produced before, take returns them and skip returns
\* nothing; they count one step for each, n of them unless the instance was
\* exhausted first, and each is put into every open Collector the instance is
\* bound to, under its step. The sequences of two instances of one seeded
\* model with a fixed initial state agree as far as both go, so take(a) then
\* take(b) gives what take(a + b) gives, and skip(n) then take(m) the last m
\* states of take(n + m).
C24_TakeSkipResume ==
    [][ \A i \in InstIds :
          (last'.op \in {"take", "skip"} /\ last'.instance = i) =>
              LET got == last'.states
              IN  /\ last'.raised = ""
                  /\ hist'[i] = hist[i] \o got
                  /\ last'.ret = IF last'.op = "take" THEN got ELSE None
                  /\ Len(got) <= last'.n
                  /\ Len(got) < last'.n => instances'[i]._has_stopped
                  /\ instances'[i]._step = instances[i]._step + Len(got)
                  /\ instances'[i]._step = Len(hist'[i])
                  /\ \A k \in 1 .. Len(got) : \A c \in last'.opened :
                        \E p \in last'.puts :
                            /\ p.collector = c
                            /\ p.entry.instance = i
                            /\ p.entry.step = last'.step + k - 1
                            /\ p.entry.state = got[k]
                  /\ \A j \in InstIds : Exists(j) => Agree(hist'[i], hist'[j])
      ]_vars

\* C24 witness: take(2) on an instance that had been taken one step returned
\* two different states, and the other instance had produced as many by one
\* call
C24_Witness ==
    /\ last.op = "take" /\ last.raised = ""
    /\ last.step = 1 /\ Len(last.ret) = 2 /\ last.ret[1] # last.ret[2]
    /\ last.opened # {}
    /\ ncall = 3
    /\ \E j \in InstIds : j # last.instance /\ Exists(j) /\ Len(hist[j]) = 2

\* ------------------------------------------------- claims on refused entries
\* C25: every next() returns a state and counts one step, whatever the
\* Collectors the instance is bound to do with the entry: a Collector that is
\* closed, and a Collector whose put returns False because it holds the step
\* of the instance already, keep their tapes and chunks as they were, and
\* nothing is raised.
C25_RefusalIsSilent ==
    [][ \A i \in InstIds :
          (last'.op = "next" /\ last'.instance = i) =>
              LET inst == instances[i]
                  bound == csets[inst._collectors]
              IN  /\ last'.raised = ""
                  /\ last'.ret \in States
                  /\ instances'[i]._state = last'.ret
                  /\ instances'[i]._step = inst._step + 1
                  /\ \A c \in bound : ~collectors[c].is_open => collectors'[c] = collectors[c]
                  /\ \A p \in last'.puts :
                        ~p.ret => collectors'[p.collector] = collectors[p.collector]
                  /\ \A c \in DOMAIN collectors : c \notin bound => collectors'[c] = collectors[c]
      ]_vars

\* C25 witness: the second next() of an instance met a Collector that had
\* been closed after the first, and a Collector that refused the entry
C25_Witness ==
    /\ last.op = "next" /\ last.step = 1
    /\ \E p \in last.puts : ~p.ret
    /\ \E c \in DOMAIN collectors :
          /\ ~collectors[c].is_open
          /\ playback(collectors[c], instances[last.instance]).value = <<hist[last.instance][1]>>

\* ------------------------------------------------------ claims on the queries
\* C26: for an instance that has put no entry, whether other instances of its
\* group have or not, length, retrieve and count return None and playback
\* yields nothing, and none of them raises; retrieve returns None, and does
\* not raise, for a step after the last one recorded.
C26_QueriesNeverRaise ==
    \A i \in InstIds :
        LET q == Queries(Log, instances[i])
        IN  /\ q[1].raised = "" /\ q[2].raised = "" /\ q[3].raised = ""
            /\ \A step \in DOMAIN q[4] : q[4][step].raised = ""
            /\ ~Recorded(i) =>
                  /\ q[1].value = <<>>
                  /\ q[2].value = None
                  /\ q[3].value = None
                  /\ \A step \in DOMAIN q[4] : q[4][step].value = None
            /\ \A step \in DOMAIN q[4] : step >= Len(q[1].value) => q[4][step].value = None

\* C27: in every state of the log, redirect(src, dst) for two different
\* instances returns False and leaves the log as it is when src and dst are
\* of different groups or src has no tape, and returns True when src has a
\* tape and dst is of its group.
C27_RedirectResult ==
    \A src \in InstIds : \A dst \in InstIds \ {src} :
        LET r == redirect(Log, instances[src], instances[dst])
        IN  IF Group(src) = Group(dst) /\ Recorded(src)
            THEN r.ret = TRUE
            ELSE r.ret = FALSE /\ r.col = Log

\* sum(result.values()) of a histogram count returns
RECURSIVE SumCounts(_)
SumCounts(histogram) ==
    IF histogram = {} THEN 0
    ELSE LET e == CHOOSE x \in histogram : TRUE
         IN  e[2] + SumCounts(histogram \ {e})

\* C28: for every instance with a tape, the counts of count(instance, (1,))
\* add up to length(instance).
C28_CountsAddUpToLength ==
    \A i \in InstIds : Recorded(i) =>
        LET n == length(Log, instances[i])
            h == count(Log, instances[i], 1)
        IN  /\ n.raised = "" /\ h.raised = ""
            /\ Len(playback(Log, instances[i]).value) > 0
            /\ n.value = SumCounts(h.value)

\* ------------------------------------------------------- claims on binding
\* C29: when a Collector that was open is closed, no instance holds it in its
\* set of bound Collectors in the state the call leaves.
C29_CloseUnbinds ==
    [][ \A c \in DOMAIN collectors :
          (collectors[c].is_open /\ ~collectors'[c].is_open) =>
              \A i \in InstIds : Exists(i) => c \notin csets'[instances'[i]._collectors]
      ]_vars

\* ------------------------------------------------ claims on the 2-cycle
\* the longest take of the runs on the 2-cycle
CycleTake == 5

\* Stochastic([[0, 1], [1, 0]], initial_state = 0, my_seed = my_seed)
Cycle(id, my_seed) ==
    Stochastic(id, <<2, 2>>, my_seed, << <<0, 2>>, <<2, 2>> >>, 0, <<>>)

\* after x = Endless(d), d being the 2-cycle with a seed or without one
InitCycle ==
    /\ collectors = <<NewCollector(0), NewCollector(1)>>
    /\ Collector_count = Len(collectors)
    /\ \E my_seed \in Seeds \cup {None} :
           /\ descriptions = [TheDescriptions EXCEPT ![0] = Cycle(0, my_seed)]
           /\ instances = [i \in InstIds |-> IF i = 0 THEN NewEndless(0, 0, my_seed)
                                             ELSE NoInstance(i)]
           /\ rngs = [i \in InstIds |-> IF i = 0 THEN default_rng(0, my_seed) ELSE NoRng]
    /\ csets = [i \in InstIds |-> {}]
    /\ Instance_count = 1
    /\ Description_count = Cardinality(Backends)
    /\ drawn = {}
    /\ last = NoCall
    /\ hist = [i \in InstIds |-> <<>>]
    /\ recorded = {}
    /\ ncall = 0
    /\ running = TRUE
    /\ model = NoModel

\* instance.take(n) with at most CycleTake states asked of an instance in all
TakeSome(i, n, picks) ==
    LET inst == instances[i]
        bound == csets[inst._collectors]
    IN  /\ Exists(i)
        /\ ncall < MaxOps
        /\ inst._step + n <= CycleTake
        /\ \E r \in {take(World, i, n, picks)} :
              /\ DrawsAll(r.draws)
              /\ SetWorld(r.w)
              /\ drawn' = drawn \cup r.draws
              /\ last' = [op |-> "take", instance |-> i, n |-> n, step |-> inst._step,
                          opened |-> { c \in bound : collectors[c].is_open },
                          ret |-> r.ret, states |-> r.states, puts |-> r.puts,
                          raised |-> r.raised]
              /\ hist' = [hist EXCEPT ![i] = @ \o r.states]
        /\ ncall' = ncall + 1
        /\ UNCHANGED <<model, recorded, running>>

\* the instance is asked for states, some at a time
NextCycle ==
    \E i \in InstIds, n \in 0 .. CycleTake : \E picks \in [1 .. n -> Picks] : TakeSome(i, n, picks)

SpecCycle == InitCycle /\ [][NextCycle]_vars

\* C30: on the model with matrix [[0, 1], [1, 0]] and fixed initial state 0,
\* take(n) on a fresh instance returns the first n states of 0, 1, 0, 1, ...
\* for every seed and every sequence of draws; take(5) returns [0, 1, 0, 1, 0].
C30_CycleIsDeterministic ==
    (last.op = "take" /\ last.step = 0) =>
        /\ last.raised = ""
        /\ last.ret = [k \in 1 .. last.n |-> (k - 1) % 2]
        /\ last.n = 5 => last.ret = <<0, 1, 0, 1, 0>>

\* take(5) of a fresh instance has returned five states, with draws of both halves
C30_Witness ==
    /\ last.op = "take" /\ last.step = 0 /\ last.n = 5
    /\ Len(last.ret) = 5
    /\ \E s \in drawn, t \in drawn : s[1] = t[1] /\ s[3] = 0 /\ t[3] = 1

\* ------------------------------------------------------ claims on sampling
\* draws in [0, 1]: 0 and 1 as in Picks, 2 for a draw that is not below the
\* last cumulative sum
ClosedPicks == {0, 1, 2}

\* the cumulative sums of the rows a 2 x 2 matrix counted in halves can have
Rows == {<<0, 2>>, <<1, 2>>, <<2, 2>>}

\* Stochastic((2, 2), matrix = ..., initial_state = ...), the initial state
\* being fixed or a distribution
InitSample ==
    /\ collectors = <<NewCollector(0), NewCollector(1)>>
    /\ Collector_count = Len(collectors)
    /\ \E first \in Rows, second \in Rows, fixed \in States \cup {None} :
           descriptions = [TheDescriptions EXCEPT
                               ![0] = Stochastic(0, <<2, 2>>, 0, <<first, second>>, fixed,
                                                 IF fixed = None THEN <<1, 2>> ELSE <<>>)]
    /\ instances = [i \in InstIds |-> NoInstance(i)]
    /\ csets = [i \in InstIds |-> {}]
    /\ Instance_count = 0
    /\ Description_count = Cardinality(Backends)
    /\ rngs = [i \in InstIds |-> NoRng]
    /\ drawn = {}
    /\ last = NoCall
    /\ hist = [i \in InstIds |-> <<>>]
    /\ recorded = {}
    /\ ncall = 0
    /\ running = TRUE
    /\ model = NoModel

\* description._initial(pick)
SampleInitial(d, pick) ==
    LET desc == descriptions[d]
        r == _initial(desc, pick)
    IN  /\ ncall < MaxOps
        /\ ncall' = ncall + 1
        /\ last' = [op |-> "_initial", accumulated |-> desc._initial_state_cumsum,
                    pick |-> pick, ret |-> r.value, raised |-> r.raised]
        /\ UNCHANGED <<model, collectors, Collector_count, instances, csets, Instance_count,
                       descriptions, Description_count, rngs, drawn, hist, recorded, running>>

\* description._transition(state, pick)
SampleTransition(d, state, pick) ==
    LET desc == descriptions[d]
        r == _transition(desc, state, pick)
    IN  /\ ncall < MaxOps
        /\ ncall' = ncall + 1
        /\ last' = [op |-> "_transition", accumulated |-> desc._matrix_cumsum[state + 1],
                    pick |-> pick, ret |-> r.value, raised |-> r.raised]
        /\ UNCHANGED <<model, collectors, Collector_count, instances, csets, Instance_count,
                       descriptions, Description_count, rngs, drawn, hist, recorded, running>>

NextSample ==
    \/ \E pick \in ClosedPicks : SampleInitial(0, pick)
    \/ \E state \in States, pick \in ClosedPicks : SampleTransition(0, state, pick)

SpecSample == InitSample /\ [][NextSample]_vars

\* C31: _initial and _transition return a state for every draw, and the last
\* index when the draw is not below the last cumulative sum.
C31_SamplingIsTotal ==
    last.op \in {"_initial", "_transition"} =>
        /\ last.raised = ""
        /\ last.ret \in States
        /\ (last.accumulated # <<>> /\ last.pick >= last.accumulated[Len(last.accumulated)])
               => last.ret = Len(last.accumulated) - 1

\* ------------------------------------------------- claims on the segments
\* C32: a put that returns True leaves list(playback(instance)) one state
\* longer than it was, the state put being its last element.
C32_AcceptedPutAppends ==
    \A i \in InstIds, state \in States :
        LET step == Len(hist[i])
            r == put(Log, i, step, state, instances[i]._backend)
        IN  r.ret => playback(r.col, instances[i]).value
                        = Append(playback(Log, instances[i]).value, state)

\* C33: when put finds no match and accepts the entry, the tape's last chunk
\* is afterwards a raw chunk whose last element is the state put and stands
\* for that step (start + len(data) - 1 = step): the entry went to the end of
\* a contiguous raw chunk or to a new raw chunk that starts at step.
C33_RawIsContiguous ==
    \A i \in InstIds, step \in 0 .. (MaxStep + 1), state \in States :
        LET g == Group(i)
            m == _match(Log, g, step, state)
            r == put(Log, i, step, state, instances[i]._backend)
            tape == r.col.tapes[g][i]
            lastc == r.col.chunks[tape[Len(tape)]]
        IN  (Log.is_open /\ m.chunk = NoChunk /\ r.ret) =>
                /\ lastc.type_ = "RAW"
                /\ lastc.data[Len(lastc.data)] = state
                /\ lastc.start + Len(lastc.data) - 1 = step

\* the number of states the raw chunks of a sequence of chunks hold
RECURSIVE RawStates(_)
RawStates(chunks) ==
    IF chunks = <<>> THEN 0
    ELSE (IF Head(chunks).type_ = "RAW" THEN Len(Head(chunks).data) ELSE 0)
         + RawStates(Tail(chunks))

\* C34: a redirect(src, dst) that succeeds for a dst without a tape leaves
\* list(playback(dst)) equal to what list(playback(src)) was, and the raw
\* chunks of the Collector hold as many states as before.
C34_RedirectSharesHistory ==
    \A src \in InstIds : \A dst \in InstIds \ {src} :
        LET r == redirect(Log, instances[src], instances[dst])
        IN  (r.ret /\ playback(Log, instances[dst]).value = <<>>) =>
                /\ playback(r.col, instances[dst]).value = playback(Log, instances[src]).value
                /\ RawStates(r.col.chunks) = RawStates(Log.chunks)

\* ------------------------------------------------ claims on append-only
\* emitters of one group that put their steps in order, and redirects
\* between them
NextShared ==
    \/ \E i \in InstIds, state \in States : PutNext(i, state)
    \/ \E src \in InstIds, dst \in InstIds : Redirect(src, dst)

SpecShared == InitLog(0, 0) /\ [][NextShared]_vars

\* C35: a state retrieve(i, k) has returned is returned again after every
\* later call, and list(playback(i)) never gets shorter.
C35_AppendOnly ==
    [][ \A i \in InstIds :
          /\ \A k \in 0 .. (MaxStep + 1) :
                LET before == retrieve(Log, instances[i], k)
                    after == retrieve(collectors'[C0], instances'[i], k)
                IN  (before.raised = "" /\ before.value # None) => after = before
          /\ Len(playback(collectors'[C0], instances'[i]).value)
                >= Len(playback(Log, instances[i]).value)
      ]_vars

\* ------------------------------------------------- claims on the streams
\* C36: an Endless instance that has advanced n >= 1 times has taken n - 1
\* draws from its stream, forced or not, none of them at its first advance;
\* the advance at step k >= 1 uses the draw the stream gives at position k - 1.
C36_DrawsFollowSteps ==
    /\ \A i \in InstIds : (Exists(i) /\ instances[i].kind = "Endless") =>
            rngs[instances[i]._state_rng].pos
                = (IF instances[i]._step >= 1 THEN instances[i]._step - 1 ELSE 0)
    /\ (last.op = "next" /\ last.raised = "" /\ last.step >= 1) =>
            <<rngs[instances[last.instance]._state_rng].stream, last.step - 1, last.pick>>
                \in drawn

\* an advance after the first had a forced state and took its draw all the same
C36_Witness ==
    /\ last.op = "next" /\ last.raised = "" /\ last.step >= 1
    /\ last.forced # None /\ last.ret = last.forced
    /\ rngs[instances[last.instance]._state_rng].pos = last.step

\* ------------------------------------------------------ claims on the Model
\* the ticks a run of a Model goes through
MaxTick == 3

\* firing patterns: every tick, the even ticks, the odd ticks
Patterns == {<<1>>, <<1, 0>>, <<0, 1>>}

\* the nodes of a Model: one instance or two different ones, each with a pattern
NodeLists ==
    { <<<<i, p>>>> : i \in InstIds, p \in Patterns }
    \cup { <<<<i, p>>, <<j, q>>>> : <<i, j>> \in { ij \in InstIds \X InstIds : ij[1] # ij[2] },
                                    <<p, q>> \in Patterns \X Patterns }

\* after x = Endless(d), f = Finite(d, lambda self: self._step >= 1),
\* y = Dependent(d, x), d being the 2-cycle without a seed
InitModel ==
    /\ collectors = <<NewCollector(0), NewCollector(1)>>
    /\ Collector_count = Len(collectors)
    /\ descriptions = TheDescriptions
    /\ instances = [i \in InstIds |->
                        IF i = 0 THEN NewEndless(0, 1, None)
                        ELSE IF i = 1 THEN NewFinite(1, 1, None, "after_one")
                        ELSE NewDependent(2, 1, None, 0)]
    /\ csets = [i \in InstIds |-> {}]
    /\ Instance_count = Cardinality(InstIds)
    /\ Description_count = Cardinality(Backends)
    /\ rngs = [i \in InstIds |-> default_rng(i, None)]
    /\ drawn = {}
    /\ last = NoCall
    /\ hist = [i \in InstIds |-> <<>>]
    /\ recorded = {}
    /\ ncall = 0
    /\ running = TRUE
    /\ model = NoModel

\* m = Model(*nodes)
ConstructModel(nodes) ==
    /\ model = NoModel
    /\ ncall < MaxOps
    /\ model' = Model__init__(nodes)
    /\ ncall' = ncall + 1
    /\ last' = [op |-> "Model"]
    /\ UNCHANGED <<collectors, Collector_count, instances, csets, Instance_count,
                   descriptions, Description_count, rngs, drawn, hist, recorded, running>>

\* the states of one instance among the <<instance, state>> of a call
StatesOf(states, i) ==
    LET Mine(e) == e[1] = i
        mine == SelectSeq(states, Mine)
    IN  [k \in 1 .. Len(mine) |-> mine[k][2]]

\* m.forward(ticks), the draws of the instances it advances being picks
Forward(ticks, picks) ==
    /\ model # NoModel
    /\ ncall < MaxOps
    /\ model._tick + ticks <= MaxTick
    /\ \E r \in {forward(World, model, ticks, picks)} :
          /\ DrawsAll(r.draws)
          /\ SetWorld(r.w)
          /\ model' = r.model
          /\ drawn' = drawn \cup r.draws
          /\ last' = [op |-> "forward", ticks |-> ticks, tick |-> model._tick,
                      fired |-> r.fired, raised |-> r.raised]
          /\ hist' = [i \in InstIds |-> hist[i] \o StatesOf(r.states, i)]
    /\ ncall' = ncall + 1
    /\ UNCHANGED <<recorded, running>>

NextModel ==
    \/ \E nodes \in NodeLists : ConstructModel(nodes)
    \/ \E ticks \in 0 .. MaxTick :
          \E picks \in [1 .. ticks * Len(model._firing_order) -> Picks] : Forward(ticks, picks)

SpecModel == InitModel /\ [][NextModel]_vars

\* the calls <<tick, instance>> of ticks from .. from + ticks - 1 when in tick
\* k the nodes whose pattern p has p[k mod len(p)] truthy are advanced, in
\* the order of registration
FiredByTick(order, from, ticks) ==
    LET n == Len(order)
        slots == [s \in 1 .. ticks * n |-> <<from + ((s - 1) \div n), ((s - 1) % n) + 1>>]
        Fires(slot) == order[slot[2]].pattern[(slot[1] % Len(order[slot[2]].pattern)) + 1] # 0
        firing == SelectSeq(slots, Fires)
    IN  [s \in 1 .. Len(firing) |-> <<firing[s][1], order[firing[s][2]].instance>>]

\* C37: a forward(t) that returns has added t to the tick counter and has
\* advanced, tick by tick and in the order of registration, exactly the
\* instances whose pattern p has p[k mod len(p)] truthy in tick k, exhausted
\* instances included, each once.
C37_ForwardFollowsPatterns ==
    (last.op = "forward" /\ last.raised = "") =>
        /\ model._tick = last.tick + last.ticks
        /\ last.fired = FiredByTick(model._firing_order, last.tick, last.ticks)

\* ---------------------------------------------- claims on shared objects
\* C38: after a redirect(src, dst) that succeeded, the next put of src
\* changes neither list(playback(dst)) nor retrieve(dst, k) for any k.
C38_RedirectedIsIndependent ==
    \A src \in InstIds : \A dst \in InstIds \ {src} :
        LET redirected == redirect(Log, instances[src], instances[dst])
        IN  redirected.ret =>
                \A state \in States :
                    LET after == put(redirected.col, src, Len(hist[src]), state,
                                     instances[src]._backend).col
                    IN  /\ playback(after, instances[dst]) = playback(redirected.col, instances[dst])
                        /\ \A k \in 0 .. (MaxStep + 1) :
                              retrieve(after, instances[dst], k)
                                  = retrieve(redirected.col, instances[dst], k)

\* the Collectors instance i is bound to among the objects w
BoundTo(w, i) == w.csets[w.instances[i]._collectors]

\* C39: after branch has returned, c.open(parent) leaves the set of
\* Collectors of the branch as it is, and c.open(branch) that of the parent.
C39_BranchHasOwnSet ==
    (last.op = "branch" /\ last.raised = "") =>
        \A c \in DOMAIN collectors :
            /\ BoundTo(open_on(World, c, last.instance), last.ret) = BoundTo(World, last.ret)
            /\ BoundTo(open_on(World, c, last.ret), last.instance) = BoundTo(World, last.instance)

\* how often the parent and the branch are advanced after the branch
BranchTake == 2

\* the places of the streams the Generators of instances i and j read in
\* BranchTake draws
Places(i, j) ==
    { <<rngs[instances[x]._state_rng].stream, rngs[instances[x]._state_rng].pos + q>> :
        x \in {i, j}, q \in 0 .. (2 * BranchTake - 1) }

\* what the streams hold at those places: a stream holds at a place what
\* was drawn from it there before
Streams(i, j) ==
    { f \in [Places(i, j) -> Picks] :
        \A t \in drawn : <<t[1], t[2]>> \in Places(i, j) => f[<<t[1], t[2]>>] = t[3] }

\* n times next(instance) with no state forced in between, the draws read
\* from the streams f: the objects afterwards and what each call gave
RECURSIVE Advanced(_, _, _, _)
Advanced(w, i, n, f) ==
    IF n = 0 THEN [w |-> w, outs |-> <<>>]
    ELSE LET rng == w.rngs[w.instances[i]._state_rng]
             r == Endless__next__(w, i, f[<<rng.stream, rng.pos>>])
             rest == Advanced(r.w, i, n - 1, f)
         IN  [w |-> rest.w, outs |-> <<[ret |-> r.ret, raised |-> r.raised]>> \o rest.outs]

\* branch() with no keyword argument has returned, taken at a step >= 1
BranchTaken ==
    /\ last.op = "branch"
    /\ last.raised = ""
    /\ last.state = None
    /\ last.step >= 1

\* C40: after branch() at a step >= 1, the parent advanced BranchTake times
\* and the branch advanced BranchTake times, in either order and with no
\* state forced, give the same states.
C40_BranchIsDeterministic ==
    BranchTaken =>
        \A f \in Streams(last.instance, last.ret) :
            LET parent == Advanced(World, last.instance, BranchTake, f)
                after == Advanced(parent.w, last.ret, BranchTake, f)
                branch == Advanced(World, last.ret, BranchTake, f)
                later == Advanced(branch.w, last.instance, BranchTake, f)
            IN  /\ after.outs = parent.outs
                /\ later.outs = branch.outs

\* a branch taken after the parent has drawn from its Generator, with
\* streams on which parent and branch run through both states
C40_Witness ==
    /\ BranchTaken
    /\ last.step >= 2
    /\ \E f \in Streams(last.instance, last.ret) :
            LET parent == Advanced(World, last.instance, BranchTake, f)
                after == Advanced(parent.w, last.ret, BranchTake, f)
            IN  /\ \A k \in 1 .. BranchTake : after.outs[k].raised = ""
                /\ { after.outs[k].ret : k \in 1 .. BranchTake } = States

====
